---------------------------- MODULE Spec2Model ----------------------------
(***************************************************************************)
(* Model of the discrete-figure generator (FigureGenerator) and of the     *)
(* drivers built on it (callback sweep, stepwise sweep, parallel sweep).   *)
(*                                                                         *)
(* The template parameters Nmax, A and B of FigureGenerator are chosen in  *)
(* the initial state and never change afterwards.                          *)
(***************************************************************************)
EXTENDS Integers, Sequences, FiniteSets, TLC

VARIABLES
    Nmax,       \* template parameter: maximum size of generated figures
    A,          \* template parameter: connectivity of chosen pixels
    B,          \* template parameter: connectivity of non-chosen pixels
    nmax,       \* argument n of the driver
    gen,        \* the FigureGenerator object of the running driver
    pc,         \* position of the driver
    counts,     \* Result::counts of the callback driver
    prevCounts, \* Result::counts of the callback sweeps that have returned
    stats,      \* the member stats of the generator (stored when bStats is true)
    trace,      \* figures handed to a recording observer, in order
    altCounts,  \* Result::counts of the stepwise driver
    altSteps,   \* number of figures the stepwise driver has counted
    InitialDepth, \* threshold level of the parallel driver
    mtCounts,   \* Result::counts of the parallel driver
    tasks,      \* the snapshots taken by the parallel driver
    workers,    \* the blocks handed to the thread pool, one record each
    resMutex    \* 0 when free, else the block holding it

config == <<Nmax, A, B, nmax, InitialDepth>>
altVars == <<altCounts, altSteps>>
mtVars == <<mtCounts, tasks, workers, resMutex>>
vars == <<config, gen, stats, pc, counts, prevCounts, trace, altVars, mtVars>>

---------------------------------------------------------------------------
(* Bounds of the explored configurations. *)

\* Largest Nmax explored with A = 4.
MaxNmax4 == 8
\* Largest Nmax explored with A = 8.
MaxNmax8 == 5
\* Number of loop iterations of generate() taken in one step of a long sweep.
BatchSize == 16384
\* Number of figures of the largest size after which a long sweep is left.
MaxReported == 505861

---------------------------------------------------------------------------
(* Grid geometry. *)

Width == 2 * Nmax + 3
HeightShort == Nmax + 2
Height == Nmax + 4
GridSize == Width * Height
PosOrigin == (Width \div 2) + 2 * Width

DirRight == 1
DirUp == Width
DirLeft == -1
DirDown == -Width
DirUpLeft == DirUp + DirLeft
DirUpRight == DirUp + DirRight
DirDownLeft == DirDown + DirLeft
DirDownRight == DirDown + DirRight

\* The order in which firstChild offers the neighbours of a pixel.
Dirs4NoDown == <<DirRight, DirUp, DirLeft>>
Dirs4 == <<DirRight, DirUp, DirLeft, DirDown>>
Dirs8 == <<DirRight, DirUpRight, DirUp, DirUpLeft,
           DirLeft, DirDownLeft, DirDown, DirDownRight>>
CandidateDirsSwapped == IF A = 4 THEN Dirs8 ELSE Dirs4
CandidateDirs == IF A = 4 THEN Dirs4 ELSE Dirs8

---------------------------------------------------------------------------
(* Validity lookup table. *)

Bit(n, k) == (n \div (2 ^ k)) % 2
AndNot(x, y) == IF x = 1 /\ y = 0 THEN 1 ELSE 0
And3(x, y, z) == IF x = 1 /\ y = 1 /\ z = 1 THEN 1 ELSE 0

\* nb with the (8,4) correction applied for every A.
NbComponentsAnyA(n) ==
    LET a == Bit(n, 0)
        b == Bit(n, 1)
        c == Bit(n, 2)
        d == Bit(n, 3)
        f == Bit(n, 4)
        g == Bit(n, 5)
        h == Bit(n, 6)
        i == Bit(n, 7)
        nb0 == AndNot(f, c) + AndNot(c, b) + AndNot(b, a) + AndNot(a, d)
             + AndNot(d, g) + AndNot(g, h) + AndNot(h, i) + AndNot(i, f)
        corr8 == IF B = 8
                 THEN And3(a, 1 - b, 1 - d) + And3(c, 1 - b, 1 - f)
                    + And3(g, 1 - d, 1 - h) + And3(i, 1 - f, 1 - h)
                 ELSE 0
        corr84 == IF B = 4
                  THEN And3(1 - a, b, d) + And3(1 - c, b, f)
                     + And3(1 - g, d, h) + And3(1 - i, f, h)
                  ELSE 0
    IN  nb0 - corr8 - corr84

\* The number nb computed by initLookupTableValidity() for the key n.
NbComponents(n) ==
    LET a == Bit(n, 0)
        b == Bit(n, 1)
        c == Bit(n, 2)
        d == Bit(n, 3)
        f == Bit(n, 4)
        g == Bit(n, 5)
        h == Bit(n, 6)
        i == Bit(n, 7)
        nb0 == AndNot(f, c) + AndNot(c, b) + AndNot(b, a) + AndNot(a, d)
             + AndNot(d, g) + AndNot(g, h) + AndNot(h, i) + AndNot(i, f)
        corr8 == IF B = 8
                 THEN And3(a, 1 - b, 1 - d) + And3(c, 1 - b, 1 - f)
                    + And3(g, 1 - d, 1 - h) + And3(i, 1 - f, 1 - h)
                 ELSE 0
        corr84 == IF A = 8 /\ B = 4
                  THEN And3(1 - a, b, d) + And3(1 - c, b, f)
                     + And3(1 - g, d, h) + And3(1 - i, f, h)
                  ELSE 0
    IN  nb0 - corr8 - corr84

LookupTableValidityLoose(n) == NbComponents(n) <= 2

\* validityLookup.table[n] as filled by initLookupTableValidity().
LookupTableValidity(n) == NbComponents(n) <= 1

---------------------------------------------------------------------------
(* The generator object. *)

InitGeneratorOpen ==
    [ count           |-> 1,
      level           |-> 0,
      candidateCounts |-> [l \in 0 .. Nmax - 1 |-> IF l = 0 THEN 1 ELSE 0],
      chosenIndices   |-> [l \in 0 .. Nmax - 1 |-> 0],
      candidates      |-> [k \in 0 .. 5 * Nmax - 1 |->
                              IF k = 0 THEN PosOrigin ELSE 0],
      gridCandidates  |-> {PosOrigin},
      gridChosen      |-> IF B # 0 THEN {PosOrigin} ELSE {} ]

\* State left by init().
InitGenerator ==
    [ count           |-> 1,
      level           |-> 0,
      candidateCounts |-> [l \in 0 .. Nmax - 1 |-> IF l = 0 THEN 1 ELSE 0],
      chosenIndices   |-> [l \in 0 .. Nmax - 1 |-> 0],
      candidates      |-> [k \in 0 .. 5 * Nmax - 1 |->
                              IF k = 0 THEN PosOrigin ELSE 0],
      gridCandidates  |-> 0 .. PosOrigin,
      gridChosen      |-> IF B # 0 THEN {PosOrigin} ELSE {} ]

AddCandidateUnmarked(g, pos) ==
    IF pos \notin g.gridCandidates
    THEN [g EXCEPT !.candidates[g.count] = pos,
                   !.count = @ + 1]
    ELSE g

ClearedKept(g) == g

\* "*this = {}": every member of g value-initialised.
Cleared(g) ==
    [ count           |-> 0,
      level           |-> 0,
      candidateCounts |-> [l \in DOMAIN g.candidateCounts |-> 0],
      chosenIndices   |-> [l \in DOMAIN g.chosenIndices |-> 0],
      candidates      |-> [k \in DOMAIN g.candidates |-> 0],
      gridCandidates  |-> {},
      gridChosen      |-> {} ]

\* init() called on a generator in the state g.
InitOf(g) ==
    [Cleared(g) EXCEPT
        !.candidates[0] = PosOrigin,
        !.count = 1,
        !.candidateCounts[0] = 1,
        !.gridCandidates = @ \cup (0 .. PosOrigin),
        !.chosenIndices[0] = 0,
        !.gridChosen = IF B # 0 THEN @ \cup {PosOrigin} ELSE @,
        !.level = 0]

\* The lambda funcAddCandidate of firstChild().
AddCandidate(g, pos) ==
    IF pos \notin g.gridCandidates
    THEN [g EXCEPT !.gridCandidates = @ \cup {pos},
                   !.candidates[g.count] = pos,
                   !.count = @ + 1]
    ELSE g

\* The calls of funcAddCandidate made in the opposite order.
RECURSIVE AddCandidatesReversed(_, _, _, _)
AddCandidatesReversed(g, pos, dirs, k) ==
    IF k > Len(dirs) THEN g
    ELSE CHOOSE r \in {AddCandidate(h, pos + dirs[k]) :
                          h \in {AddCandidatesReversed(g, pos, dirs, k + 1)}} : TRUE

\* funcAddCandidate applied to pos + dirs[k], pos + dirs[k+1], ...; the
\* state h left by one call is bound through a singleton set, which makes
\* TLC evaluate it once, also where it evaluates ENABLED.
RECURSIVE AddCandidates(_, _, _, _)
AddCandidates(g, pos, dirs, k) ==
    IF k > Len(dirs) THEN g
    ELSE CHOOSE r \in {AddCandidates(h, pos, dirs, k + 1) :
                          h \in {AddCandidate(g, pos + dirs[k])}} : TRUE

FirstChildFailsEarly(g) ==
    LET idx == g.chosenIndices[g.level]
        pos == g.candidates[idx]
        g1  == AddCandidates(g, pos, CandidateDirs, 1)
    IN  IF g1.count = g.count
        THEN [ret |-> FALSE, g |-> g1]
        ELSE [ret |-> TRUE,
              g   |-> [g1 EXCEPT
                         !.level = @ + 1,
                         !.candidateCounts[g.level + 1] = g1.count,
                         !.chosenIndices[g.level + 1] = idx + 1,
                         !.gridChosen = IF B # 0
                                        THEN @ \cup {g1.candidates[idx + 1]}
                                        ELSE @]]

FirstChildRepeat(g) ==
    LET idx == g.chosenIndices[g.level]
        pos == g.candidates[idx]
        g1  == AddCandidates(g, pos, CandidateDirs, 1)
    IN  IF idx + 1 = g1.count
        THEN [ret |-> FALSE, g |-> g1]
        ELSE [ret |-> TRUE,
              g   |-> [g1 EXCEPT
                         !.level = @ + 1,
                         !.candidateCounts[g.level + 1] = g1.count,
                         !.chosenIndices[g.level + 1] = idx]]

\* firstChild(): the state it leaves and the value it returns.
FirstChild(g) ==
    LET idx == g.chosenIndices[g.level]
        pos == g.candidates[idx]
        g1  == AddCandidates(g, pos, CandidateDirs, 1)
    IN  IF idx + 1 = g1.count
        THEN [ret |-> FALSE, g |-> g1]
        ELSE [ret |-> TRUE,
              g   |-> [g1 EXCEPT
                         !.level = @ + 1,
                         !.candidateCounts[g.level + 1] = g1.count,
                         !.chosenIndices[g.level + 1] = idx + 1,
                         !.gridChosen = IF B # 0
                                        THEN @ \cup {g1.candidates[idx + 1]}
                                        ELSE @]]

NextSiblingSkipLast(g) ==
    LET idx == g.chosenIndices[g.level]
    IN  IF idx + 1 < g.count - 1
        THEN [ret |-> TRUE,
              g   |-> [g EXCEPT
                         !.gridChosen =
                             IF B # 0
                             THEN (@ \ {g.candidates[idx]})
                                      \cup {g.candidates[idx + 1]}
                             ELSE @,
                         !.chosenIndices[g.level] = idx + 1]]
        ELSE [ret |-> FALSE, g |-> g]

NextSiblingPastEnd(g) ==
    LET idx == g.chosenIndices[g.level]
    IN  IF idx + 1 <= g.count
        THEN [ret |-> TRUE,
              g   |-> [g EXCEPT
                         !.gridChosen =
                             IF B # 0
                             THEN (@ \ {g.candidates[idx]})
                                      \cup {g.candidates[idx + 1]}
                             ELSE @,
                         !.chosenIndices[g.level] = idx + 1]]
        ELSE [ret |-> FALSE, g |-> g]

NextSiblingStale(g) ==
    LET idx == g.chosenIndices[g.level]
    IN  IF idx + 1 < g.count
        THEN [ret |-> TRUE,
              g   |-> [g EXCEPT
                         !.gridChosen =
                             IF B # 0 THEN @ \cup {g.candidates[idx + 1]} ELSE @,
                         !.chosenIndices[g.level] = idx + 1]]
        ELSE [ret |-> FALSE, g |-> g]

NextSiblingDropsCandidate(g) ==
    LET idx == g.chosenIndices[g.level]
    IN  IF idx + 1 < g.count
        THEN [ret |-> TRUE,
              g   |-> [g EXCEPT
                         !.gridChosen =
                             IF B # 0
                             THEN (@ \ {g.candidates[idx]})
                                      \cup {g.candidates[idx + 1]}
                             ELSE @,
                         !.gridCandidates = @ \ {g.candidates[idx]},
                         !.chosenIndices[g.level] = idx + 1]]
        ELSE [ret |-> FALSE, g |-> g]

\* nextSibling(): the state it leaves and the value it returns.
NextSibling(g) ==
    LET idx == g.chosenIndices[g.level]
    IN  IF idx + 1 < g.count
        THEN [ret |-> TRUE,
              g   |-> [g EXCEPT
                         !.gridChosen =
                             IF B # 0
                             THEN (@ \ {g.candidates[idx]})
                                      \cup {g.candidates[idx + 1]}
                             ELSE @,
                         !.chosenIndices[g.level] = idx + 1]]
        ELSE [ret |-> FALSE, g |-> g]

ParentKeepsChosen(g) ==
    LET lvl == g.level - 1
    IN  [g EXCEPT
           !.level = lvl,
           !.gridCandidates =
               @ \ {g.candidates[k] : k \in g.candidateCounts[lvl] .. g.count - 1},
           !.count = g.candidateCounts[lvl]]

ParentKeepsCandidates(g) ==
    LET lvl == g.level - 1
    IN  [g EXCEPT
           !.gridChosen = IF B # 0
                          THEN @ \ {g.candidates[g.chosenIndices[g.level]]}
                          ELSE @,
           !.level = lvl,
           !.count = g.candidateCounts[lvl]]

ParentKeepsCount(g) ==
    LET lvl == g.level - 1
    IN  [g EXCEPT
           !.gridChosen = IF B # 0
                          THEN @ \ {g.candidates[g.chosenIndices[g.level]]}
                          ELSE @,
           !.level = lvl,
           !.gridCandidates =
               @ \ {g.candidates[k] : k \in g.candidateCounts[lvl] .. g.count - 1}]

ParentErases(g) ==
    LET lvl == g.level - 1
    IN  [g EXCEPT
           !.gridChosen = IF B # 0
                          THEN @ \ {g.candidates[g.chosenIndices[g.level]]}
                          ELSE @,
           !.level = lvl,
           !.gridCandidates =
               @ \ {g.candidates[k] : k \in g.candidateCounts[lvl] .. g.count - 1},
           !.candidates = [k \in DOMAIN g.candidates |->
                              IF k \in g.candidateCounts[lvl] .. g.count - 1
                              THEN 0 ELSE g.candidates[k]],
           !.count = g.candidateCounts[lvl]]

ParentStay(g) == g

\* parent(): the state it leaves.
Parent(g) ==
    LET lvl == g.level - 1
    IN  [g EXCEPT
           !.gridChosen = IF B # 0
                          THEN @ \ {g.candidates[g.chosenIndices[g.level]]}
                          ELSE @,
           !.level = lvl,
           !.gridCandidates =
               @ \ {g.candidates[k] : k \in g.candidateCounts[lvl] .. g.count - 1},
           !.count = g.candidateCounts[lvl]]

---------------------------------------------------------------------------
(* Validity check. *)

InGrid(grid, pos) == IF pos \in grid THEN 1 ELSE 0

\* The key with left and right exchanged.
NeighbourhoodMirrored(g) ==
    LET pos == g.candidates[g.chosenIndices[g.level]]
    IN    InGrid(g.gridChosen, pos + DirUpRight)
        + 2 * InGrid(g.gridChosen, pos + DirUp)
        + 4 * InGrid(g.gridChosen, pos + DirUpLeft)
        + 8 * InGrid(g.gridChosen, pos + DirRight)
        + 16 * InGrid(g.gridChosen, pos + DirLeft)
        + 32 * InGrid(g.gridChosen, pos + DirDownRight)
        + 64 * InGrid(g.gridChosen, pos + DirDown)
        + 128 * InGrid(g.gridChosen, pos + DirDownLeft)

\* The key built by checkValidity() from the neighbourhood of the last
\* chosen pixel.
Neighbourhood(g) ==
    LET pos == g.candidates[g.chosenIndices[g.level]]
    IN    InGrid(g.gridChosen, pos + DirUpLeft)
        + 2 * InGrid(g.gridChosen, pos + DirUp)
        + 4 * InGrid(g.gridChosen, pos + DirUpRight)
        + 8 * InGrid(g.gridChosen, pos + DirLeft)
        + 16 * InGrid(g.gridChosen, pos + DirRight)
        + 32 * InGrid(g.gridChosen, pos + DirDownLeft)
        + 64 * InGrid(g.gridChosen, pos + DirDown)
        + 128 * InGrid(g.gridChosen, pos + DirDownRight)

FirstVisitPos == PosOrigin + DirDownLeft

\* visit.grid without the clearing of the positions up to FirstVisitPos.
VisitGridInitAll(g) == g.gridCandidates \ g.gridChosen

\* visit.grid as prepared before the traversal.
VisitGridInit(g) ==
    {p \in g.gridCandidates \ g.gridChosen : p > FirstVisitPos}

\* The lambda funcVisit applied to p + dirs[k], p + dirs[k+1], ...
\* v is the pair of visit.grid and visit.queue; the pair u left by one call
\* is bound through a singleton set, as in AddCandidates.
RECURSIVE VisitNeighbours(_, _, _)
VisitNeighbours(v, p, k) ==
    IF k > Len(Dirs8) THEN v
    ELSE LET q == p + Dirs8[k]
             w == IF q \in v.grid
                  THEN [grid |-> v.grid \ {q}, queue |-> Append(v.queue, q)]
                  ELSE v
         IN  CHOOSE r \in {VisitNeighbours(u, p, k + 1) : u \in {w}} : TRUE

\* The loop left after its first iteration.
VisitLoopOnce(v) ==
    IF Len(v.queue) = 0 THEN v.grid
    ELSE VisitNeighbours(
             [grid  |-> v.grid,
              queue |-> SubSeq(v.queue, 1, Len(v.queue) - 1)],
             v.queue[Len(v.queue)], 1).grid

\* The loop "while (visit.count > 0)"; yields the final visit.grid.
RECURSIVE VisitLoop(_)
VisitLoop(v) ==
    IF Len(v.queue) = 0 THEN v.grid
    ELSE LET p == v.queue[Len(v.queue)]
             w == VisitNeighbours(
                      [grid  |-> v.grid,
                       queue |-> SubSeq(v.queue, 1, Len(v.queue) - 1)], p, 1)
         IN  CHOOSE r \in {VisitLoop(u) : u \in {w}} : TRUE

\* The capacity of visit.queue.
VisitQueueSize == 5 * Nmax + Width + 1

\* What the loop "while (visit.count > 0)" does from the state v of
\* visit.grid and visit.queue on, added to log: the positions handed to
\* funcVisit (probed), the positions stored in visit.queue in the order of
\* storing (pushed), the largest visit.count (maxCount) and the number of
\* iterations.
RECURSIVE VisitLog(_, _)
VisitLog(v, log) ==
    IF Len(v.queue) = 0 THEN log
    ELSE LET p == v.queue[Len(v.queue)]
             rest == SubSeq(v.queue, 1, Len(v.queue) - 1)
         IN  CHOOSE r \in
                 {VisitLog(w,
                      [probed     |-> log.probed
                                          \cup {p + Dirs8[k] : k \in 1 .. Len(Dirs8)},
                       pushed     |-> log.pushed
                                          \o SubSeq(w.queue, Len(rest) + 1, Len(w.queue)),
                       maxCount   |-> IF Len(w.queue) > log.maxCount
                                      THEN Len(w.queue) ELSE log.maxCount,
                       iterations |-> log.iterations + 1])
                  : w \in {VisitNeighbours([grid |-> v.grid, queue |-> rest], p, 1)}}
                 : TRUE

\* The log of the graph traversal run by checkValidity() on g.
TraversalLog(g) ==
    VisitLog([grid |-> VisitGridInit(g), queue |-> <<FirstVisitPos>>],
             [probed     |-> {},
              pushed     |-> <<FirstVisitPos>>,
              maxCount   |-> 1,
              iterations |-> 0])

GraphTraversalNone(g) == FALSE

\* The graph traversal among the white pixels, for connectivity (8,8).
GraphTraversal(g) ==
    VisitLoop([grid |-> VisitGridInit(g), queue |-> <<FirstVisitPos>>]) = {}

\* checkValidity() called on g runs the graph traversal.
CheckValidityTraverses(g) ==
    /\ B # 0
    /\ ~(A # 8 \/ B # 8)
    /\ ~LookupTableValidity(Neighbourhood(g))

\* checkValidity() with the test of the older file, "A != 8 && B != 8".
CheckValidityConj(g) ==
    IF B = 0 THEN TRUE
    ELSE IF A # 8 /\ B # 8 THEN LookupTableValidity(Neighbourhood(g))
    ELSE IF LookupTableValidity(Neighbourhood(g)) THEN TRUE
    ELSE GraphTraversal(g)

\* checkValidity(): the value it returns.
CheckValidity(g) ==
    IF B = 0 THEN TRUE
    ELSE IF A # 8 \/ B # 8 THEN LookupTableValidity(Neighbourhood(g))
    ELSE IF LookupTableValidity(Neighbourhood(g)) THEN TRUE
    ELSE GraphTraversal(g)

---------------------------------------------------------------------------
(* Callback driver: MainFunc_Simple running FigureGenerator::generate(). *)

\* The pixels of the current figure.
Figure(g) == {g.candidates[g.chosenIndices[l]] : l \in 0 .. g.level}

\* What a recording observer notes of the current figure.
Observed(g) == [level |-> g.level, cells |-> Figure(g)]

MaxLevelOver == IF nmax > Nmax THEN Nmax ELSE nmax

\* "if (nmax > Nmax) nmax = Nmax; uint32_t maxLevel = nmax - 1;"
MaxLevel == (IF nmax > Nmax THEN Nmax ELSE nmax) - 1

ZeroCounts == [l \in 0 .. Nmax - 1 |-> 0]

\* FigureGeneratorStats, value-initialised.
ZeroStats == [nonLeaf |-> 0, leaf |-> 0, rejected |-> 0]

\* The callback handed to generate() by MainFunc_Simple:
\* "++res.counts[generator.level]".
CountFigure(c, g) == [c EXCEPT ![g.level] = @ + 1]

GenerateIterationDescend(s) ==
    IF s.pc = "check"
    THEN LET v == CheckValidity(s.gen)
             c == IF v THEN CountFigure(s.counts, s.gen) ELSE s.counts
         IN  IF s.gen.level >= MaxLevel
             THEN [gen |-> s.gen, pc |-> "sibling", counts |-> c]
             ELSE LET r == FirstChild(s.gen)
                  IN  [gen    |-> r.g,
                       pc     |-> IF r.ret THEN "check" ELSE "sibling",
                       counts |-> c]
    ELSE IF s.pc = "sibling"
    THEN LET r == NextSibling(s.gen)
         IN  IF r.ret
             THEN [gen |-> r.g, pc |-> "check", counts |-> s.counts]
             ELSE IF s.gen.level = 0
                  THEN [gen |-> s.gen, pc |-> "done", counts |-> s.counts]
                  ELSE [gen |-> Parent(s.gen), pc |-> "sibling", counts |-> s.counts]
    ELSE s

\* One iteration of a loop of generate(), from the driver state
\* s = [gen, pc, counts]: of "while (checkValidity())", callback included,
\* when s.pc = "check", and of "while (not nextSibling())" when
\* s.pc = "sibling".
GenerateIteration(s) ==
    IF s.pc = "check"
    THEN IF CheckValidity(s.gen)
         THEN LET c == CountFigure(s.counts, s.gen)
              IN  IF s.gen.level >= MaxLevel
                  THEN [gen |-> s.gen, pc |-> "sibling", counts |-> c]
                  ELSE LET r == FirstChild(s.gen)
                       IN  [gen    |-> r.g,
                            pc     |-> IF r.ret THEN "check" ELSE "sibling",
                            counts |-> c]
         ELSE [gen |-> s.gen, pc |-> "sibling", counts |-> s.counts]
    ELSE IF s.pc = "sibling"
    THEN LET r == NextSibling(s.gen)
         IN  IF r.ret
             THEN [gen |-> r.g, pc |-> "check", counts |-> s.counts]
             ELSE IF s.gen.level = 0
                  THEN [gen |-> s.gen, pc |-> "done", counts |-> s.counts]
                  ELSE [gen |-> Parent(s.gen), pc |-> "sibling", counts |-> s.counts]
    ELSE s

Driver == [gen |-> gen, pc |-> pc, counts |-> counts]

\* One iteration of the loop "while (checkValidity())" of generate(); rec
\* tells whether the observer also records the figure.
GenVisit(rec) ==
    /\ pc = "check"
    /\ LET s == GenerateIteration(Driver)
       IN  /\ gen' = s.gen
           /\ pc' = s.pc
           /\ counts' = s.counts
    /\ trace' = IF rec /\ CheckValidity(gen)
                THEN Append(trace, Observed(gen))
                ELSE trace
    /\ UNCHANGED <<config, stats, prevCounts, altVars, mtVars>>

\* One iteration of the loop "while (not nextSibling())" of generate().
GenAscend ==
    /\ pc = "sibling"
    /\ LET s == GenerateIteration(Driver)
       IN  /\ gen' = s.gen
           /\ pc' = s.pc
    /\ UNCHANGED <<config, stats, prevCounts, counts, trace, altVars, mtVars>>

\* k successive iterations of the loops of generate(): the first half of
\* them, then the others from the state h the first half leaves.
RECURSIVE GenerateIterations(_, _)
GenerateIterations(s, k) ==
    IF k = 0 \/ s.pc = "done" THEN s
    ELSE IF k = 1 THEN GenerateIteration(s)
    ELSE LET h == GenerateIterations(s, k \div 2)
         IN  GenerateIterations(h, k - (k \div 2))

\* A run of BatchSize iterations of generate(), or up to its return.  The
\* sweep is followed as long as no more than MaxReported figures of the
\* largest size have been reported.
GenBatch ==
    /\ pc \in {"check", "sibling"}
    /\ counts[MaxLevel] <= MaxReported
    /\ LET s == GenerateIterations(Driver, BatchSize)
       IN  /\ gen' = s.gen
           /\ pc' = s.pc
           /\ counts' = s.counts
    /\ UNCHANGED <<config, stats, prevCounts, trace, altVars, mtVars>>

\* The state in which generate() is entered, right after init().
InitConfig(N, a, b, n, t) ==
    /\ Nmax = N
    /\ A = a
    /\ B = b
    /\ nmax = n
    /\ InitialDepth = t
    /\ gen = InitGenerator
    /\ pc = "check"
    /\ counts = ZeroCounts
    /\ prevCounts = <<>>
    /\ stats = ZeroStats
    /\ trace = <<>>
    /\ altCounts = ZeroCounts
    /\ altSteps = 0
    /\ mtCounts = ZeroCounts
    /\ tasks = <<>>
    /\ workers = <<>>
    /\ resMutex = 0

\* InitialDepth of MainFunc_Multithreaded.
DefaultDepth(a) == IF a = 4 THEN 8 ELSE 6

Init ==
    \E a \in {4, 8}, b \in {0, 4, 8} :
        \E N \in 1 .. (IF a = 4 THEN MaxNmax4 ELSE MaxNmax8) :
            \E n \in 1 .. N : InitConfig(N, a, b, n, DefaultDepth(a))

---------------------------------------------------------------------------
(* Stepwise driver: MainFunc_Alternative running nextStep(). *)

\* The loop "do { while (not nextSibling()) ... } while (not checkValidity())"
\* of nextStep().
\* The states passed on (r of nextSibling(), h of parent()) are bound
\* through singleton sets, as in AddCandidates.
RECURSIVE NextStepAscend(_)
NextStepAscend(g) ==
    CHOOSE x \in
        {IF r.ret
         THEN IF CheckValidity(r.g)
              THEN [ret |-> TRUE, g |-> r.g]
              ELSE NextStepAscend(r.g)
         ELSE IF g.level = 0
              THEN [ret |-> FALSE, g |-> g]
              ELSE CHOOSE y \in {NextStepAscend(h) : h \in {Parent(g)}} : TRUE
         : r \in {NextSibling(g)}} : TRUE

NextStepDeep(g, n) ==
    LET r == IF g.level <= n - 1 THEN FirstChild(g) ELSE [ret |-> FALSE, g |-> g]
    IN  IF r.ret /\ CheckValidity(r.g)
        THEN [ret |-> TRUE, g |-> r.g]
        ELSE NextStepAscend(r.g)

NextStepShallow(g, n) ==
    LET r == IF g.level + 1 < n - 1 THEN FirstChild(g) ELSE [ret |-> FALSE, g |-> g]
    IN  IF r.ret /\ CheckValidity(r.g)
        THEN [ret |-> TRUE, g |-> r.g]
        ELSE NextStepAscend(r.g)

\* nextStep(n): the state it leaves and the value it returns.
NextStep(g, n) ==
    CHOOSE x \in
        {IF r.ret /\ CheckValidity(r.g)
         THEN [ret |-> TRUE, g |-> r.g]
         ELSE NextStepAscend(r.g)
         : r \in {IF g.level < n - 1 THEN FirstChild(g)
                                      ELSE [ret |-> FALSE, g |-> g]}} : TRUE

\* MainFunc_Alternative, run after the callback sweep: "generator.init()".
AltStart ==
    /\ pc = "done"
    /\ gen' = InitGenerator
    /\ pc' = "alt_count"
    /\ UNCHANGED <<config, stats, prevCounts, counts, trace, altVars, mtVars>>

\* "++res.counts[generator.level]"
AltCount ==
    /\ pc = "alt_count"
    /\ altCounts' = CountFigure(altCounts, gen)
    /\ altSteps' = altSteps + 1
    /\ pc' = "alt_step"
    /\ UNCHANGED <<config, stats, prevCounts, gen, counts, trace, mtVars>>

\* "while (generator.nextStep(n))"
AltStep ==
    /\ pc = "alt_step"
    /\ LET r == NextStep(gen, nmax)
       IN  /\ gen' = r.g
           /\ pc' = IF r.ret THEN "alt_count" ELSE "alt_done"
    /\ UNCHANGED <<config, stats, prevCounts, counts, trace, altVars, mtVars>>

Next == GenVisit(TRUE) \/ GenAscend \/ AltStart \/ AltCount \/ AltStep

Spec == Init /\ [][Next]_vars

---------------------------------------------------------------------------
(* Parallel driver: MainFunc_Multithreaded.  InitialDepth is a compile-time
   constant of the driver; the parallel scenarios draw it from 1 .. Nmax so
   that the subtask level falls below, at and above nmax within the bounds. *)

\* Largest Nmax of the parallel scenarios with A = 4 and with A = 8.
MaxNmaxMT4 == 4
MaxNmaxMT8 == 3
\* Largest number of blocks the subtask list is cut into.
MaxBlocks == 2

WorkerBreaksStrict(g) == g.level < InitialDepth - 1

\* "if (generator.level <= InitialDepth - 1) break;"
WorkerBreaks(g) == g.level <= InitialDepth - 1

\* "generator.init()" of MainFunc_Multithreaded, run after the callback sweep.
MTStart ==
    /\ pc = "done"
    /\ gen' = InitGenerator
    /\ pc' = "mt_loop"
    /\ UNCHANGED <<config, stats, prevCounts, counts, trace, altVars, mtVars>>

MTLoopSnapshotsBelow ==
    /\ pc = "mt_loop"
    /\ mtCounts' = CountFigure(mtCounts, gen)
    /\ tasks' = IF gen.level <= InitialDepth - 1 THEN Append(tasks, gen) ELSE tasks
    /\ LET r == NextStep(gen, InitialDepth)
       IN  /\ gen' = r.g
           /\ pc' = IF r.ret THEN "mt_loop" ELSE "mt_push"
    /\ UNCHANGED <<config, stats, prevCounts, counts, trace, altVars, workers, resMutex>>

\* One iteration of the main thread's loop
\* "do { ++res.counts[level]; if (level == InitialDepth - 1)
\*       tasks.emplace_back(generator); } while (nextStep(InitialDepth))".
MTLoop ==
    /\ pc = "mt_loop"
    /\ mtCounts' = CountFigure(mtCounts, gen)
    /\ tasks' = IF gen.level = InitialDepth - 1 THEN Append(tasks, gen) ELSE tasks
    /\ LET r == NextStep(gen, InitialDepth)
       IN  /\ gen' = r.g
           /\ pc' = IF r.ret THEN "mt_loop" ELSE "mt_push"
    /\ UNCHANGED <<config, stats, prevCounts, counts, trace, altVars, workers, resMutex>>

RECURSIVE SortedSeq(_)
SortedSeq(S) ==
    IF S = {} THEN <<>>
    ELSE LET m == CHOOSE x \in S : \A y \in S : x <= y
         IN  <<m>> \o SortedSeq(S \ {m})

NewWorkerOverlap(imin, imax) ==
    [imin |-> 0, imax |-> imax, i |-> 0,
     my_counts |-> ZeroCounts, at |-> "loop"]

\* A fresh worker for the block [imin, imax) of tasks (0-based, as in the
\* code): "ullong my_counts[NMAX]{}".
NewWorker(imin, imax) ==
    [imin |-> imin, imax |-> imax, i |-> imin,
     my_counts |-> ZeroCounts, at |-> "loop"]

\* pool.push_loop(0, tasks.size(), ...): the index range is cut into at most
\* MaxBlocks contiguous non-empty blocks, one worker per block.
MTPushLoop ==
    /\ pc = "mt_push"
    /\ \E cuts \in [1 .. MaxBlocks - 1 -> 1 .. Len(tasks)] :
           LET b == SortedSeq({0, Len(tasks)} \cup {cuts[k] : k \in 1 .. MaxBlocks - 1})
           IN  workers' = [w \in 1 .. Len(b) - 1 |-> NewWorker(b[w], b[w + 1])]
    /\ pc' = "mt_wait"
    /\ UNCHANGED <<config, stats, prevCounts, gen, counts, trace, altVars, mtCounts, tasks, resMutex>>

\* One iteration of a worker's loop "while (generator.nextStep(n))" on
\* tasks[i], or the end of that loop and the step to the next task.
WorkerStep(w) ==
    /\ pc = "mt_wait"
    /\ w \in 1 .. Len(workers)
    /\ workers[w].at = "loop"
    /\ LET me == workers[w]
           r  == NextStep(tasks[me.i + 1], nmax)
       IN  /\ tasks' = [tasks EXCEPT ![me.i + 1] = r.g]
           /\ workers' =
                  IF r.ret /\ ~WorkerBreaks(r.g)
                  THEN [workers EXCEPT
                          ![w].my_counts = CountFigure(@, r.g)]
                  ELSE [workers EXCEPT
                          ![w].i = @ + 1,
                          ![w].at = IF me.i + 1 < me.imax THEN "loop" ELSE "lock"]
    /\ UNCHANGED <<config, stats, prevCounts, gen, pc, counts, trace, altVars, mtCounts, resMutex>>

WorkerLockFree(w) ==
    /\ pc = "mt_wait"
    /\ w \in 1 .. Len(workers)
    /\ workers[w].at = "lock"
    /\ resMutex' = w
    /\ workers' = [workers EXCEPT ![w].at = "merge"]
    /\ UNCHANGED <<config, stats, prevCounts, gen, pc, counts, trace, altVars, mtCounts, tasks>>

\* "resMutex.lock()"
WorkerLock(w) ==
    /\ pc = "mt_wait"
    /\ w \in 1 .. Len(workers)
    /\ workers[w].at = "lock"
    /\ resMutex = 0
    /\ resMutex' = w
    /\ workers' = [workers EXCEPT ![w].at = "merge"]
    /\ UNCHANGED <<config, stats, prevCounts, gen, pc, counts, trace, altVars, mtCounts, tasks>>

WorkerMergeShort(w) ==
    /\ pc = "mt_wait"
    /\ w \in 1 .. Len(workers)
    /\ workers[w].at = "merge"
    /\ mtCounts' = [l \in 0 .. Nmax - 1 |->
                       IF l < nmax - 1 THEN mtCounts[l] + workers[w].my_counts[l]
                       ELSE mtCounts[l]]
    /\ resMutex' = 0
    /\ workers' = [workers EXCEPT ![w].at = "done"]
    /\ UNCHANGED <<config, stats, prevCounts, gen, pc, counts, trace, altVars, tasks>>

\* "for (level = 0; level < n; ++level) res.counts[level] += my_counts[level];
\*  resMutex.unlock()"
WorkerMerge(w) ==
    /\ pc = "mt_wait"
    /\ w \in 1 .. Len(workers)
    /\ workers[w].at = "merge"
    /\ mtCounts' = [l \in 0 .. Nmax - 1 |->
                       IF l < nmax THEN mtCounts[l] + workers[w].my_counts[l]
                       ELSE mtCounts[l]]
    /\ resMutex' = 0
    /\ workers' = [workers EXCEPT ![w].at = "done"]
    /\ UNCHANGED <<config, stats, prevCounts, gen, pc, counts, trace, altVars, tasks>>

\* pool.wait_for_tasks() returns once every block has been processed.
MTWait ==
    /\ pc = "mt_wait"
    /\ \A w \in 1 .. Len(workers) : workers[w].at = "done"
    /\ pc' = "mt_done"
    /\ UNCHANGED <<config, stats, prevCounts, gen, counts, trace, altVars, mtVars>>

InitMT ==
    \E a \in {4, 8}, b \in {0, 4, 8} :
        \E N \in 1 .. (IF a = 4 THEN MaxNmaxMT4 ELSE MaxNmaxMT8) :
            \E n \in 1 .. N, t \in 1 .. N : InitConfig(N, a, b, n, t)

NextMT ==
    \/ GenVisit(FALSE)
    \/ GenAscend
    \/ MTStart
    \/ MTLoop
    \/ MTPushLoop
    \/ \E w \in 1 .. MaxBlocks : WorkerStep(w)
    \/ \E w \in 1 .. MaxBlocks : WorkerLock(w)
    \/ \E w \in 1 .. MaxBlocks : WorkerMerge(w)
    \/ MTWait

SpecMT == InitMT /\ [][NextMT]_vars

\* The steps of the main thread and those of the thread that runs block w.
MainThread == GenVisit(FALSE) \/ GenAscend \/ MTStart \/ MTLoop \/ MTPushLoop \/ MTWait
WorkerThread(w) == WorkerStep(w) \/ WorkerLock(w) \/ WorkerMerge(w)

\* The parallel driver with every thread scheduled again and again.
FairSpecMT ==
    /\ InitMT
    /\ [][NextMT]_vars
    /\ WF_vars(MainThread)
    /\ \A w \in 1 .. MaxBlocks : WF_vars(WorkerThread(w))

\* res.counts as the loop of the main thread leaves it: the stepwise sweep
\* to the depth InitialDepth, continued from the generator g with counts c.
RECURSIVE StepwiseCounts(_, _)
StepwiseCounts(g, c) ==
    LET c1 == CountFigure(c, g)
        r  == NextStep(g, InitialDepth)
    IN  IF r.ret THEN StepwiseCounts(r.g, c1) ELSE c1

MainCounts == StepwiseCounts(InitGenerator, ZeroCounts)

---------------------------------------------------------------------------
(* The callback sweep alone, under the scheduling of a running thread. *)

NextGenerate == GenVisit(FALSE) \/ GenAscend

FairSpec == Init /\ [][NextGenerate]_vars /\ WF_vars(NextGenerate)

---------------------------------------------------------------------------
(* The callback sweep with an observer that keeps, for each level, the     *)
(* state of the generator at the last call of the callback on that level.  *)

\* What generate() leaves in use of the generator g: level, count,
\* candidates[0 .. count), chosenIndices[0 .. level] and both grids.
Snapshot(g) ==
    [ level          |-> g.level,
      count          |-> g.count,
      candidates     |-> [k \in 0 .. g.count - 1 |-> g.candidates[k]],
      chosenIndices  |-> [l \in 0 .. g.level |-> g.chosenIndices[l]],
      gridCandidates |-> g.gridCandidates,
      gridChosen     |-> g.gridChosen ]

\* One iteration of the loop "while (checkValidity())" of generate() with a
\* callback that stores the snapshot of the generator at index level + 1
\* and drops those of deeper levels.
GenSnapshot ==
    /\ pc = "check"
    /\ LET s == GenerateIteration(Driver)
       IN  /\ gen' = s.gen
           /\ pc' = s.pc
           /\ counts' = s.counts
    /\ trace' = IF CheckValidity(gen)
                THEN Append(SubSeq(trace, 1, gen.level), Snapshot(gen))
                ELSE trace
    /\ UNCHANGED <<config, stats, prevCounts, altVars, mtVars>>

NextSnapshot == GenSnapshot \/ GenAscend

SpecSnapshot == Init /\ [][NextSnapshot]_vars

---------------------------------------------------------------------------
(* The sweeps of a generator with bStats = true. *)

\* "stats.rejected += !bResult" at the end of checkValidity() called on g.
StatsCheckValidity(st, g) ==
    [st EXCEPT !.rejected = @ + (IF CheckValidity(g) THEN 0 ELSE 1)]

\* firstChild() called on g: "++stats.nonLeaf" where it returns false,
\* "++stats.leaf" where it returns true.
StatsFirstChild(st, g) ==
    IF FirstChild(g).ret
    THEN [st EXCEPT !.leaf = @ + 1]
    ELSE [st EXCEPT !.nonLeaf = @ + 1]

\* stats after one iteration of a loop of generate() from the driver state
\* s; at maxLevel generate() does "++stats.nonLeaf".
StatsGenerateIteration(st, s) ==
    IF s.pc = "check"
    THEN IF CheckValidity(s.gen)
         THEN IF s.gen.level >= MaxLevel
              THEN [StatsCheckValidity(st, s.gen) EXCEPT !.nonLeaf = @ + 1]
              ELSE StatsFirstChild(StatsCheckValidity(st, s.gen), s.gen)
         ELSE StatsCheckValidity(st, s.gen)
    ELSE st

\* stats after the loop "do { while (not nextSibling()) ... } while (not
\* checkValidity())" of nextStep() entered in g.
RECURSIVE StatsNextStepAscend(_, _)
StatsNextStepAscend(st, g) ==
    CHOOSE x \in
        {IF r.ret
         THEN IF CheckValidity(r.g)
              THEN StatsCheckValidity(st, r.g)
              ELSE StatsNextStepAscend(StatsCheckValidity(st, r.g), r.g)
         ELSE IF g.level = 0 THEN st
              ELSE StatsNextStepAscend(st, Parent(g))
         : r \in {NextSibling(g)}} : TRUE

\* stats after nextStep(n) called on g.
StatsNextStep(st, g, n) ==
    IF g.level < n - 1
    THEN CHOOSE x \in
             {IF r.ret
              THEN IF CheckValidity(r.g)
                   THEN StatsCheckValidity(StatsFirstChild(st, g), r.g)
                   ELSE StatsNextStepAscend(
                            StatsCheckValidity(StatsFirstChild(st, g), r.g), r.g)
              ELSE StatsNextStepAscend(StatsFirstChild(st, g), r.g)
              : r \in {FirstChild(g)}} : TRUE
    ELSE StatsNextStepAscend(st, g)

\* One iteration of the loop "while (checkValidity())" of generate().
GenVisitStats ==
    /\ pc = "check"
    /\ LET s == GenerateIteration(Driver)
       IN  /\ gen' = s.gen
           /\ pc' = s.pc
           /\ counts' = s.counts
    /\ stats' = StatsGenerateIteration(stats, Driver)
    /\ UNCHANGED <<config, prevCounts, trace, altVars, mtVars>>

\* MainFunc_Alternative called after MainFunc_Simple has returned: a new
\* generator, with its own stats.
AltStartStats ==
    /\ pc = "done"
    /\ gen' = InitGenerator
    /\ stats' = ZeroStats
    /\ pc' = "alt_count"
    /\ UNCHANGED <<config, prevCounts, counts, trace, altVars, mtVars>>

\* "while (generator.nextStep(n))"
AltStepStats ==
    /\ pc = "alt_step"
    /\ LET r == NextStep(gen, nmax)
       IN  /\ gen' = r.g
           /\ pc' = IF r.ret THEN "alt_count" ELSE "alt_done"
    /\ stats' = StatsNextStep(stats, gen, nmax)
    /\ UNCHANGED <<config, prevCounts, counts, trace, altVars, mtVars>>

NextStats ==
    GenVisitStats \/ GenAscend \/ AltStartStats \/ AltCount \/ AltStepStats

SpecStats == Init /\ [][NextStats]_vars

---------------------------------------------------------------------------
(* The callback sweep started again in the same process. *)

\* MainFunc_Simple called again after it returned: the caller keeps the
\* counts of the sweep that returned; the new call starts with "Result
\* res{}" and "generator.init()" on a generator in the state the last
\* sweep left.
SimpleAgain ==
    /\ pc = "done"
    /\ Len(prevCounts) = 0
    /\ prevCounts' = Append(prevCounts, counts)
    /\ gen' = InitOf(gen)
    /\ counts' = ZeroCounts
    /\ pc' = "check"
    /\ UNCHANGED <<config, stats, trace, altVars, mtVars>>

\* A sweep given up between two iterations of generate(), and started
\* again: "generator.init()" in the middle of the sweep, with fresh counts.
Reinit ==
    /\ pc \in {"check", "sibling"}
    /\ gen' = InitOf(gen)
    /\ counts' = ZeroCounts
    /\ pc' = "check"
    /\ UNCHANGED <<config, stats, prevCounts, trace, altVars, mtVars>>

NextRerun == GenVisit(FALSE) \/ GenAscend \/ SimpleAgain \/ Reinit

SpecRerun == Init /\ [][NextRerun]_vars

---------------------------------------------------------------------------
(* The command line: main().  NMAX is a build parameter ("#ifndef NMAX"); *)
(* the scenarios of main() build the program with a small NMAX, held by    *)
(* the variable Nmax.                                                      *)

\* Largest NMAX of the command-line scenarios.
MaxNmaxMain == 3
\* Largest length of the text given after "-n".
MaxArgLen == 3

\* The characters the text after "-n" is made of.
ArgChars == {"-", "0", "1", "2", "3", "x"}
ArgTexts == UNION {[1 .. k -> ArgChars] : k \in 0 .. MaxArgLen}

DigitValue == ("0" :> 0) @@ ("1" :> 1) @@ ("2" :> 2) @@ ("3" :> 3)

\* atoi() on the digits at the head of s, acc being the value read so far.
RECURSIVE AtoiDigits(_, _)
AtoiDigits(s, acc) ==
    IF s = <<>> \/ Head(s) \notin DOMAIN DigitValue THEN acc
    ELSE AtoiDigits(Tail(s), 10 * acc + DigitValue[Head(s)])

\* atoi(s): an optional sign, then the digits up to the first other
\* character; 0 when there is no digit.
Atoi(s) ==
    IF s # <<>> /\ Head(s) = "-" THEN 0 - AtoiDigits(Tail(s), 0)
    ELSE AtoiDigits(s, 0)

\* The conversion of the int n to the uint32_t parameter of MainFunc.  TLC
\* computes with 32-bit signed integers, so the model keeps 31 of the 32
\* bits: a negative n becomes 2^31 + n where the code gives 2^32 + n.
ToUnsigned(n) == IF n < 0 THEN 2147483647 + (n + 1) ELSE n

\* main(), from its arguments to its first return or to the call of
\* MainFunc: hasN and text are the argument "-n<text>" (the last one
\* given), conn tells whether the connectivity (A, B) is asked for, stat,
\* alt and mt are the flags and junk tells whether an argument is none of
\* these.
Main(hasN, text, conn, stat, alt, mt, junk) ==
    /\ pc = "main"
    /\ LET n == IF hasN THEN Atoi(text) ELSE 0
       IN  IF junk \/ n = 0 \/ n > Nmax \/ ~conn \/ (mt /\ stat) \/ (mt /\ alt)
           THEN /\ pc' = "exit_1"
                /\ UNCHANGED <<nmax, gen>>
           ELSE /\ nmax' = ToUnsigned(n)
                /\ gen' = InitGenerator
                /\ pc' = IF alt THEN "alt_count"
                         ELSE IF mt THEN "mt_loop" ELSE "check"
    /\ UNCHANGED <<Nmax, A, B, InitialDepth, stats, prevCounts, counts, trace, altVars, mtVars>>

MainArgs ==
    \E hasN \in BOOLEAN, text \in ArgTexts :
        \E conn \in BOOLEAN, stat \in BOOLEAN, alt \in BOOLEAN,
           mt \in BOOLEAN, junk \in BOOLEAN :
            Main(hasN, text, conn, stat, alt, mt, junk)

\* "while (generator.nextStep(n))" of MainFunc_Alternative for any n: a
\* firstChild() at the level Nmax - 1 writes candidateCounts[Nmax] and
\* chosenIndices[Nmax], behind the arrays, and what the program does from
\* there is undefined.
AltStepAny ==
    /\ pc = "alt_step"
    /\ IF gen.level < nmax - 1 /\ gen.level + 1 > Nmax - 1 /\ FirstChild(gen).ret
       THEN /\ gen' = FirstChild(gen).g
            /\ pc' = "alt_undefined"
       ELSE LET r == NextStep(gen, nmax)
            IN  /\ gen' = r.g
                /\ pc' = IF r.ret THEN "alt_count" ELSE "alt_done"
    /\ UNCHANGED <<config, stats, prevCounts, counts, trace, altVars, mtVars>>

\* After the write behind the arrays the program may do anything; seen from
\* outside it ends abnormally or returns from main() as if nothing happened.
AltUndefined ==
    /\ pc = "alt_undefined"
    /\ pc' \in {"crash", "exit_0"}
    /\ UNCHANGED <<config, stats, prevCounts, gen, counts, trace, altVars, mtVars>>

\* The end of main(): the result section is printed, main() returns 0.
MainPrint ==
    /\ pc \in {"done", "alt_done"}
    /\ pc' = "exit_0"
    /\ UNCHANGED <<config, stats, prevCounts, gen, counts, trace, altVars, mtVars>>

InitMain ==
    \E a \in {4, 8}, b \in {0, 4, 8}, N \in 1 .. MaxNmaxMain :
        /\ Nmax = N
        /\ A = a
        /\ B = b
        /\ nmax = 0
        /\ InitialDepth = DefaultDepth(a)
        /\ gen = InitGenerator
        /\ pc = "main"
        /\ counts = ZeroCounts
        /\ prevCounts = <<>>
        /\ stats = ZeroStats
        /\ trace = <<>>
        /\ altCounts = ZeroCounts
        /\ altSteps = 0
        /\ mtCounts = ZeroCounts
        /\ tasks = <<>>
        /\ workers = <<>>
        /\ resMutex = 0

NextMain ==
    \/ MainArgs
    \/ GenVisit(FALSE)
    \/ GenAscend
    \/ AltCount
    \/ AltStepAny
    \/ AltUndefined
    \/ MainPrint

SpecMain == InitMain /\ [][NextMain]_vars

---------------------------------------------------------------------------
(* Known-value scenarios, with the generator built for NMAX. *)

NMAX == 20

InitKnown ==
    \/ InitConfig(NMAX, 4, 0, 8, DefaultDepth(4))
    \/ InitConfig(NMAX, 4, 4, 8, DefaultDepth(4))
    \/ InitConfig(NMAX, 8, 0, 6, DefaultDepth(8))
    \/ InitConfig(NMAX, 8, 8, 5, DefaultDepth(8))

SpecKnown == InitKnown /\ [][NextGenerate]_vars

InitS5 ==
    \/ InitConfig(NMAX, 4, 0, 12, DefaultDepth(4))
    \/ InitConfig(NMAX, 4, 0, 13, DefaultDepth(4))

SpecS5 == InitS5 /\ [][GenBatch]_vars

\* A sweep deep enough for firstChild() to find no candidate after the
\* chosen one: connectivity (4,0), every figure accepted, up to DeepNmax
\* pixels.
DeepNmax == 10

InitDeep == InitConfig(DeepNmax, 4, 0, DeepNmax, DefaultDepth(4))

SpecDeep == InitDeep /\ [][NextGenerate]_vars

\* counts[0 .. n-1] as the sequence of the counts of sizes 1 .. n.
CountsBySize(c, n) == [k \in 1 .. n |-> c[k - 1]]

---------------------------------------------------------------------------
(* Reference definitions, computed from the geometry of the grid alone:    *)
(* the figures the sweep is meant to report.                               *)

XOf(p) == p % Width
YOf(p) == p \div Width

\* The grid cells adjacent to p under connectivity conn (4 or 8).
GridNeighbours(conn, p) ==
    {(XOf(p) + dx) + Width * (YOf(p) + dy) :
        <<dx, dy>> \in {d \in (-1 .. 1) \X (-1 .. 1) :
            /\ d # <<0, 0>>
            /\ conn = 4 => (d[1] = 0 \/ d[2] = 0)
            /\ XOf(p) + d[1] \in 0 .. Width - 1
            /\ YOf(p) + d[2] \in 0 .. Height - 1}}

\* GridNeighbours(conn, p) tabulated for every cell of the grid.
GridNeighbourMap(conn) == [p \in 0 .. GridSize - 1 |-> GridNeighbours(conn, p)]

\* The connected cell sets with one cell more than those of S, every cell
\* at a linear position >= PosOrigin; nbr is the adjacency of the cells.
GrowFigures(nbr, S) ==
    UNION {{F \cup {c} :
               c \in {q \in UNION {nbr[p] : p \in F} :
                          q > PosOrigin /\ q \notin F}} : F \in S}

RECURSIVE FiguresOfSize(_, _)
FiguresOfSize(nbr, n) ==
    IF n = 1 THEN {{PosOrigin}} ELSE GrowFigures(nbr, FiguresOfSize(nbr, n - 1))

\* All conn-connected cell sets of size 1..n that contain PosOrigin and no
\* cell before it.
CanonicalFigures(conn, n) ==
    LET nbr == GridNeighbourMap(conn)
    IN  UNION {FiguresOfSize(nbr, k) : k \in 1 .. n}

RECURSIVE Flood(_, _, _, _)
Flood(nbr, free, frontier, reached) ==
    IF frontier = {} THEN reached
    ELSE LET new == (UNION {nbr[p] : p \in frontier} \cap free) \ reached
         IN  Flood(nbr, free, new, reached \cup new)

\* The cells of the grid outside F form one connected component under the
\* adjacency nbr.
BackgroundConnected(nbr, F) ==
    LET free == (0 .. GridSize - 1) \ F
        seed == CHOOSE p \in free : TRUE
    IN  Flood(nbr, free, {seed}, {seed}) = free

\* The canonical A-connected figures of size <= n whose background is
\* conn-connected.
ValidFigures(conn, n) ==
    LET nbr == GridNeighbourMap(conn)
    IN  {F \in CanonicalFigures(A, n) : BackgroundConnected(nbr, F)}

\* The cell sets reported so far.
ReportedFigures == {trace[k].cells : k \in 1 .. Len(trace)}

---------------------------------------------------------------------------
(* Properties of the sweep. *)

\* The bottom-leftmost cell of F (the least linear position) moved to
\* PosOrigin.
Normalised(F) ==
    LET m == CHOOSE p \in F : \A q \in F : p <= q
    IN  {q - m + PosOrigin : q \in F}

\* C1. Uniqueness: the observer invocations of one complete sweep report pairwise
\* different cell sets, also when each is translated to put its
\* bottom-leftmost cell at the origin: there are as many different figures
\* as invocations.
C1_Uniqueness ==
    pc = "done" =>
        Cardinality({Normalised(trace[k].cells) : k \in 1 .. Len(trace)}) = Len(trace)

\* A finished sweep that reported several figures of the same size.
C1_Witness ==
    /\ pc = "done"
    /\ \E j, k \in 1 .. Len(trace) : j # k /\ trace[j].level = trace[k].level

\* C2. Completeness with B = 0: a complete callback sweep reports exactly
\* the A-connected cell sets of size 1..nmax that contain PosOrigin and
\* have no cell before PosOrigin, each with level = size - 1.
C2_Completeness ==
    (pc = "done" /\ B = 0) =>
        /\ ReportedFigures = CanonicalFigures(A, nmax)
        /\ \A k \in 1 .. Len(trace) :
               trace[k].level = Cardinality(trace[k].cells) - 1

\* A finished sweep without background constraint, three levels deep.
C2_Witness ==
    /\ pc = "done"
    /\ B = 0
    /\ nmax >= 3
    /\ \E k \in 1 .. Len(trace) : trace[k].level = 2

C4_StepwiseEquivalence ==
    /\ pc = "alt_count" =>
          /\ altSteps < Len(trace)
          /\ trace[altSteps + 1] = Observed(gen)
    /\ pc = "alt_done" =>
          /\ altSteps = Len(trace)
          /\ altCounts = counts

\* The stepwise sweep has ended after visiting several levels.
C4_Witness ==
    /\ pc = "alt_done"
    /\ altSteps > 3
    /\ altCounts[1] > 0

\* C6. Termination: generate(nmax), entered in the state left by init(),
\* returns, at level 0 with no next sibling.
C6_Termination ==
    <>(pc = "done" /\ gen.level = 0 /\ ~NextSibling(gen).ret)

\* generate() has returned from a sweep as deep as the generator allows.
C6_Witness ==
    /\ pc = "done"
    /\ nmax = Nmax
    /\ nmax >= 3
    /\ counts[nmax - 1] > 0

\* C7. Known values without background constraint: a complete sweep gives
\* 1, 2, 6, 19, 63, 216, 760, 2725 for (A=4, B=0, nmax=8) and
\* 1, 4, 20, 110, 638, 3832 for (A=8, B=0, nmax=6).
C7_KnownValuesB0 ==
    (pc = "done" /\ B = 0) =>
        /\ (A = 4 /\ nmax = 8) =>
               CountsBySize(counts, 8) = <<1, 2, 6, 19, 63, 216, 760, 2725>>
        /\ (A = 8 /\ nmax = 6) =>
               CountsBySize(counts, 6) = <<1, 4, 20, 110, 638, 3832>>

\* The sweep (A=8, B=0, nmax=6) has ended.
C7_Witness ==
    /\ pc = "done"
    /\ A = 8 /\ B = 0 /\ nmax = 6
    /\ counts[5] > 0

\* C8. Known values for (A=4, B=4): a complete sweep with nmax = 8 gives
\* 1, 2, 6, 19, 63, 216, 756, 2684.
C8_KnownValues44 ==
    (pc = "done" /\ A = 4 /\ B = 4 /\ nmax = 8) =>
        CountsBySize(counts, 8) = <<1, 2, 6, 19, 63, 216, 756, 2684>>

\* The sweep (A=4, B=4, nmax=8) has ended.
C8_Witness ==
    /\ pc = "done"
    /\ A = 4 /\ B = 4 /\ nmax = 8
    /\ counts[7] > 0

\* C9. Known values for (A=8, B=8): a complete sweep with nmax = 5 gives
\* 1, 4, 20, 110, 638.
C9_KnownValues88 ==
    (pc = "done" /\ A = 8 /\ B = 8 /\ nmax = 5) =>
        CountsBySize(counts, 5) = <<1, 4, 20, 110, 638>>

\* The sweep (A=8, B=8, nmax=5) has ended.
C9_Witness ==
    /\ pc = "done"
    /\ A = 8 /\ B = 8 /\ nmax = 5
    /\ counts[4] > 0

\* C10, as stated. Known value at size 13: for (A=4, B=0, nmax=13) the
\* number of figures reported at size 13 (level 12) is 505861: it is
\* 505861 when the sweep ends and never more before.
C10_Original ==
    (A = 4 /\ B = 0 /\ nmax = 13) =>
        /\ counts[12] <= 505861
        /\ pc = "done" => counts[12] = 505861

\* C10, amended. For (A=4, B=0), 505861 is the number of figures reported
\* at size 12 (level 11): the sweep with nmax = 12 ends with it, and no
\* sweep reports more figures of size 12.  The sweep with nmax = 13 does
\* not end before it has reported more than 505861 figures of size 13.
C10_KnownValueSize12 ==
    (A = 4 /\ B = 0 /\ nmax \in {12, 13}) =>
        /\ counts[11] <= 505861
        /\ (pc = "done" /\ nmax = 12) => counts[11] = 505861
        /\ (pc = "done" /\ nmax = 13) => counts[12] > 505861

\* The sweep (A=4, B=0, nmax=13) has reported more than 505861 figures of
\* size 13.
C10_Witness ==
    /\ A = 4 /\ B = 0 /\ nmax = 13
    /\ counts[12] > 505861

\* C5: when the parallel driver returns, its counts for the levels below
\* nmax equal the counts of the callback driver, whatever the threshold, the
\* cut of the subtask list into blocks and the interleaving of the workers.
C5_ParallelEquivalence ==
    pc = "mt_done" => \A l \in 0 .. nmax - 1 : mtCounts[l] = counts[l]

\* Two workers have each counted figures of size nmax below their subtasks
\* and merged them.
C5_Witness ==
    /\ pc = "mt_done"
    /\ Len(workers) = 2
    /\ nmax > InitialDepth
    /\ \A w \in 1 .. 2 : workers[w].my_counts[nmax - 1] > 0
    /\ \A l \in 0 .. nmax - 1 : mtCounts[l] = counts[l]

---------------------------------------------------------------------------
(* Order of the reports. *)

\* What the observer noted of the parent of the current figure: the chosen
\* cells of the levels below g.level.
ParentObserved(g) ==
    [level |-> g.level - 1,
     cells |-> {g.candidates[g.chosenIndices[l]] : l \in 0 .. g.level - 1}]

\* The reports made so far.
Reported == {trace[k] : k \in 1 .. Len(trace)}

\* C11. Parent before child: whenever the observer is invoked at a level
\* >= 1, the parent figure (the chosen cells of the levels below, at the
\* level below) has been reported before; and the callback sweep never
\* stands on a figure of level >= 1 whose parent has not been reported, so
\* no descendant of a rejected figure is produced.
C11_ParentBeforeChild ==
    [][ /\ (trace' # trace /\ gen.level >= 1) => ParentObserved(gen) \in Reported
        /\ (pc' \in {"check", "sibling"} /\ gen'.level >= 1) =>
               ParentObserved(gen') \in Reported' ]_vars

\* The sweep stands on a figure that the validity check rejects, after a
\* report at a level >= 1.
C11_Witness ==
    /\ pc = "check"
    /\ B # 0
    /\ gen.level >= 2
    /\ ~CheckValidity(gen)
    /\ Len(trace) > 0
    /\ trace[Len(trace)].level >= 1

---------------------------------------------------------------------------
(* Invariants of the generator object. *)

\* C12. Unicity convention: the pixel chosen at level 0 is PosOrigin, no
\* position marked by init() (0 .. PosOrigin) is ever appended to the
\* candidates behind PosOrigin itself, and no chosen pixel lies before
\* PosOrigin: every chosen pixel is on the row of PosOrigin at its right,
\* or on a row above.
C12_UnicityConvention ==
    /\ gen.candidates[gen.chosenIndices[0]] = PosOrigin
    /\ \A k \in 1 .. gen.count - 1 : gen.candidates[k] > PosOrigin
    /\ \A c \in Figure(gen) \cup gen.gridChosen :
           /\ c >= PosOrigin
           /\ \/ YOf(c) > YOf(PosOrigin)
              \/ YOf(c) = YOf(PosOrigin) /\ XOf(c) >= XOf(PosOrigin)

\* The pixel above and left of PosOrigin is chosen: the pixel below it was
\* marked by init().
C12_Witness ==
    /\ gen.level >= 2
    /\ (PosOrigin + DirUpLeft) \in Figure(gen)
    /\ (PosOrigin + DirUpLeft + DirDown) \in gen.gridCandidates
    /\ \A k \in 0 .. gen.count - 1 :
           gen.candidates[k] # PosOrigin + DirUpLeft + DirDown

\* C13. P1: the indices chosenIndices[0 .. level] are strictly increasing
\* and each of them is below count.
C13_ChosenIndicesIncreasing ==
    \A l \in 0 .. gen.level :
        /\ gen.chosenIndices[l] < gen.count
        /\ l > 0 => gen.chosenIndices[l - 1] < gen.chosenIndices[l]

\* At a level >= 2 the chosen indices leave gaps, at the last level (a
\* nextSibling() after a firstChild()) and at the level below it (a
\* firstChild() after a nextSibling()).
C13_Witness ==
    /\ gen.level >= 2
    /\ gen.chosenIndices[gen.level] > gen.chosenIndices[gen.level - 1] + 1
    /\ gen.chosenIndices[gen.level - 1] > gen.chosenIndices[gen.level - 2] + 1
    /\ gen.chosenIndices[gen.level] = gen.count - 1

\* C14. P3: when the grid of chosen pixels is stored (B # 0), the positions
\* set in gridChosen are exactly the pixels candidates[chosenIndices[l]],
\* 0 <= l <= level, and they are level + 1 different positions.
C14_ChosenGrid ==
    B # 0 =>
        /\ gen.gridChosen = Figure(gen)
        /\ Cardinality(gen.gridChosen) = gen.level + 1

\* With B # 0, after a parent() (the candidates array keeps an entry behind
\* count) and a nextSibling() at the current level.
C14_Witness ==
    /\ B # 0
    /\ gen.level >= 1
    /\ gen.candidates[gen.count] # 0
    /\ gen.chosenIndices[gen.level] > gen.chosenIndices[gen.level - 1] + 1

\* C15. Candidate grid: the positions set in gridCandidates are exactly
\* the positions candidates[0 .. count-1] and the positions 0 .. PosOrigin
\* marked by init(), and candidates[0 .. count-1] holds no position twice.
C15_CandidateGrid ==
    /\ gen.gridCandidates =
           {gen.candidates[i] : i \in 0 .. gen.count - 1} \cup (0 .. PosOrigin)
    /\ Cardinality({gen.candidates[i] : i \in 0 .. gen.count - 1}) = gen.count

\* After a parent() that withdrew at least two candidates: they are still
\* in the candidates array behind count, and the first is no longer set in
\* gridCandidates.
C15_Witness ==
    /\ gen.level >= 1
    /\ gen.candidates[gen.count] # 0
    /\ gen.candidates[gen.count + 1] # 0
    /\ gen.candidates[gen.count] \notin gen.gridCandidates

\* C16. P4: every position set in gridChosen, and every chosen pixel also
\* where gridChosen is not stored (B = 0), is set in gridCandidates.
C16_ChosenAreCandidates ==
    (gen.gridChosen \cup Figure(gen)) \subseteq gen.gridCandidates

\* With B # 0, after a nextSibling(): a candidate before the last chosen
\* one is set in gridCandidates and no longer in gridChosen.
C16_Witness ==
    /\ B # 0
    /\ gen.level >= 1
    /\ gen.gridChosen # {}
    /\ \E k \in 1 .. gen.chosenIndices[gen.level] - 1 :
           /\ gen.candidates[k] \notin gen.gridChosen
           /\ gen.candidates[k] \in gen.gridCandidates

---------------------------------------------------------------------------
(* Capacity of the arrays. *)

\* The driver is about to call firstChild(): generate() after an accepted
\* figure below maxLevel, nextStep() below nmax - 1.
CallsFirstChild ==
    \/ pc = "check" /\ gen.level < MaxLevel /\ CheckValidity(gen)
    \/ pc = "alt_step" /\ gen.level < nmax - 1

\* The indices of candidates[] written by firstChild() called on g.
FirstChildWrites(g) == g.count .. FirstChild(g).g.count - 1

\* C17. P5, capacity: with nmax <= Nmax, in every state count <= 5 * Nmax
\* and level < Nmax, and each firstChild() the drivers call writes
\* candidates[] only at indices below 5 * Nmax and candidateCounts[] and
\* chosenIndices[] only at an index below Nmax.
C17_Capacity ==
    /\ gen.level < Nmax
    /\ gen.count <= 5 * Nmax
    /\ CallsFirstChild =>
           /\ FirstChildWrites(gen) \subseteq 0 .. 5 * Nmax - 1
           /\ gen.level + 1 <= Nmax - 1

\* A sweep to the compile-time maximum (nmax = Nmax) with A = 8 stands at
\* the last level with the most candidates it ever holds.
C17_Witness ==
    /\ A = 8
    /\ Nmax >= 3
    /\ nmax = Nmax
    /\ gen.level = Nmax - 1
    /\ gen.count = 5 * Nmax - 5

\* C18. Padding: every chosen pixel has a column in 1 .. Width - 2 and a
\* row in 1 .. Height - 2, so each of the eight positions around it that
\* firstChild() and checkValidity() read is an index of the grid, in an
\* adjacent column (no offset wraps to another row).
C18_PaddingSuffices ==
    \A c \in Figure(gen) :
        /\ XOf(c) \in 1 .. Width - 2
        /\ YOf(c) \in 1 .. Height - 2
        /\ \A k \in 1 .. Len(Dirs8) :
               /\ c + Dirs8[k] \in 0 .. GridSize - 1
               /\ XOf(c + Dirs8[k]) \in XOf(c) - 1 .. XOf(c) + 1
               /\ YOf(c + Dirs8[k]) \in YOf(c) - 1 .. YOf(c) + 1

\* A sweep to the compile-time maximum stands on a figure that reaches the
\* highest row a chosen pixel can have, Nmax - 1 rows above PosOrigin.
C18_Witness ==
    /\ nmax = Nmax
    /\ Nmax >= 3
    /\ \E c \in Figure(gen) : YOf(c) = YOf(PosOrigin) + Nmax - 1

---------------------------------------------------------------------------
(* Boundary cases. *)

\* The report of the figure made of the pixel PosOrigin alone.
RootReport == [level |-> 0, cells |-> {PosOrigin}]

\* C19. nmax = 1: for every (A, B) the callback sweep and the stepwise
\* sweep each report one figure, the pixel PosOrigin at level 0, and
\* firstChild() is never called: the generator stays as init() left it.
C19_SingleCell ==
    nmax = 1 =>
        /\ gen = InitGenerator
        /\ ~CallsFirstChild
        /\ \A l \in 1 .. Nmax - 1 : counts[l] = 0 /\ altCounts[l] = 0
        /\ counts[0] = Len(trace)
        /\ altCounts[0] = altSteps
        /\ trace = IF pc = "check" THEN <<>> ELSE <<RootReport>>
        /\ altSteps = IF pc \in {"alt_step", "alt_done"} THEN 1 ELSE 0
        /\ pc \in {"alt_count", "alt_step"} => Figure(gen) = {PosOrigin}

\* Both sweeps have returned with nmax = 1, of a generator that has room
\* for more levels and checks the background.
C19_Witness ==
    /\ nmax = 1
    /\ Nmax >= 2
    /\ B # 0
    /\ pc = "alt_done"
    /\ counts[0] = 1
    /\ altCounts[0] = 1

\* C20. Re-initialisation: init() called on the generator in any state of
\* a sweep (at its start, in its middle, after its return) leaves the
\* root state: level 0, count 1, candidates[0] = PosOrigin,
\* candidateCounts[0] = 1, chosenIndices[0] = 0, the positions
\* 0 .. PosOrigin set in gridCandidates, the pixel PosOrigin chosen (and
\* alone in gridChosen where it is stored), every other entry zero; a sweep
\* starts from that state, and a second sweep in the same process returns
\* the counts of the first.
C20_Reinitialisation ==
    /\ LET r == InitOf(gen)
       IN  /\ r.level = 0
           /\ r.count = 1
           /\ r.candidates[0] = PosOrigin
           /\ r.candidateCounts[0] = 1
           /\ r.chosenIndices[0] = 0
           /\ r.gridCandidates = 0 .. PosOrigin
           /\ r.gridChosen = IF B # 0 THEN {PosOrigin} ELSE {}
           /\ Figure(r) = {PosOrigin}
           /\ \A k \in 1 .. 5 * Nmax - 1 : r.candidates[k] = 0
           /\ \A l \in 1 .. Nmax - 1 :
                  r.candidateCounts[l] = 0 /\ r.chosenIndices[l] = 0
           /\ r = InitOf(r)
    /\ (pc = "check" /\ counts = ZeroCounts) => gen = InitOf(gen)
    /\ (pc = "done" /\ Len(prevCounts) = 1) => counts = prevCounts[1]

\* A second sweep has returned, three levels deep or more, on a generator
\* that the first sweep left with withdrawn candidates in its array.
C20_Witness ==
    /\ pc = "done"
    /\ Len(prevCounts) = 1
    /\ nmax >= 3
    /\ B # 0
    /\ counts[2] > 1
    /\ gen.candidates[1] # 0

---------------------------------------------------------------------------
(* Properties of the parallel driver. *)

\* The indices of tasks (0-based) of the block of worker w.
Block(w) == workers[w].imin .. workers[w].imax - 1

\* The workers whose block holds the index k.
Owners(k) == {w \in 1 .. Len(workers) : k \in Block(w)}

\* Every index of tasks is in the block of one worker, each worker stands
\* inside its block, and no worker exists while the main thread fills tasks.
Confined ==
    /\ pc \in {"mt_loop", "mt_push"} => Len(workers) = 0
    /\ pc \in {"mt_wait", "mt_done"} =>
           /\ \A k \in 0 .. Len(tasks) - 1 : Cardinality(Owners(k)) = 1
           /\ \A w \in 1 .. Len(workers) :
                  /\ workers[w].i \in workers[w].imin .. workers[w].imax
                  /\ workers[w].at = "loop" => workers[w].i < workers[w].imax
    /\ pc = "mt_done" =>
           \A w \in 1 .. Len(workers) : workers[w].i = workers[w].imax

\* A step of the fan-out leaves the main generator and the length of tasks
\* alone, and changes tasks[k] only as a step of the one worker that owns
\* the index and stands on it; the other workers do not move.
ConfinedStep ==
    pc = "mt_wait" =>
        /\ gen' = gen
        /\ Len(tasks') = Len(tasks)
        /\ \A k \in 1 .. Len(tasks) :
               tasks'[k] # tasks[k] =>
                   \E w \in Owners(k - 1) :
                       /\ workers[w].i = k - 1
                       /\ workers[w].at = "loop"
                       /\ \A v \in 1 .. Len(workers) :
                              v # w => workers'[v] = workers[v]
                       /\ \A j \in 1 .. Len(tasks) : j # k => tasks'[j] = tasks[j]

\* C21. Thread confinement: during the fan-out every index of tasks is in
\* the block of exactly one worker and is processed by it, and no generator
\* (the main one or any tasks[i]) is changed by a thread other than its
\* owner, under every interleaving of the workers.
C21_ThreadConfinement == []Confined /\ [][ConfinedStep]_vars

\* Two workers are both in the middle of their blocks, each having counted
\* figures below a subtask.
C21_Witness ==
    /\ pc = "mt_wait"
    /\ Len(workers) = 2
    /\ \A w \in 1 .. 2 :
           /\ workers[w].at = "loop"
           /\ workers[w].my_counts[nmax - 1] > 0
    /\ workers[1].i > workers[1].imin

\* At most one worker is between lock() and unlock(), it is the one that
\* holds resMutex, and a worker comes to the merge only with its block
\* finished.
MergeExclusive ==
    /\ resMutex \in 0 .. Len(workers)
    /\ Cardinality({w \in 1 .. Len(workers) : workers[w].at = "merge"}) <= 1
    /\ \A w \in 1 .. Len(workers) :
           /\ workers[w].at = "merge" <=> resMutex = w
           /\ workers[w].at \in {"lock", "merge", "done"} =>
                  workers[w].i = workers[w].imax

\* During the fan-out res.counts changes only in the merge of the worker
\* that holds resMutex; a worker is done only through its merge, and once
\* done it does nothing more.
MergeStep ==
    pc = "mt_wait" =>
        /\ mtCounts' # mtCounts =>
               \E w \in 1 .. Len(workers) :
                   /\ resMutex = w
                   /\ workers[w].at = "merge"
                   /\ workers'[w].at = "done"
        /\ \A w \in 1 .. Len(workers) :
               /\ workers[w].at = "done" => workers'[w] = workers[w]
               /\ (workers[w].at # "done" /\ workers'[w].at = "done") =>
                      /\ workers[w].at = "merge"
                      /\ resMutex = w
                      /\ resMutex' = 0
                      /\ \A l \in 0 .. nmax - 1 :
                             mtCounts'[l] = mtCounts[l] + workers[w].my_counts[l]

\* C22. Merge mutual exclusion: while the workers run, res.counts is
\* changed only by a worker that holds resMutex, at most one worker is in
\* the merge at any time, and each worker merges once, after the last
\* subtask of its block.
C22_MergeMutualExclusion == []MergeExclusive /\ [][MergeStep]_vars

\* One worker is in its merge with figures counted while the other waits
\* for resMutex, also with figures counted.
C22_Witness ==
    /\ pc = "mt_wait"
    /\ Len(workers) = 2
    /\ workers[1].at = "merge"
    /\ workers[2].at = "lock"
    /\ \A w \in 1 .. 2 : workers[w].my_counts[nmax - 1] > 0

\* The sum of my_counts[l] over the workers 1 .. k.
RECURSIVE SumMyCounts(_, _)
SumMyCounts(l, k) ==
    IF k = 0 THEN 0 ELSE workers[k].my_counts[l] + SumMyCounts(l, k - 1)

\* The driver has returned: every worker has merged, resMutex is free and
\* res.counts holds the counts of the main thread plus those of the blocks.
Returned ==
    /\ Len(workers) >= 1
    /\ \A w \in 1 .. Len(workers) : workers[w].at = "done"
    /\ resMutex = 0
    /\ \A l \in 0 .. Nmax - 1 :
           mtCounts[l] = MainCounts[l] + SumMyCounts(l, Len(workers))

\* C23. Completion barrier: with every thread scheduled again and again
\* the parallel driver returns, and it returns only after every worker has
\* merged, with res.counts[l] the count of the main thread plus the sum of
\* the blocks' my_counts[l], at every level l.
C23_CompletionBarrier ==
    /\ <>(pc = "mt_done")
    /\ [](pc = "mt_done" => Returned)

\* The driver has returned with the merged counts of two blocks.
C23_Witness ==
    /\ pc = "mt_done"
    /\ Len(workers) = 2
    /\ nmax > InitialDepth
    /\ \A w \in 1 .. 2 : workers[w].my_counts[nmax - 1] > 0
    /\ mtCounts[nmax - 1] =
           workers[1].my_counts[nmax - 1] + workers[2].my_counts[nmax - 1]

---------------------------------------------------------------------------
(* The command line. *)

\* C24. Size validation, as claimed: main() goes past its validation (it
\* runs an enumeration, and may print a result section) only with a size
\* in 1 .. NMAX; with any other value after "-n", or without "-n", it
\* returns 1.
C24_SizeValidation ==
    pc \notin {"main", "exit_1"} => nmax \in 1 .. Nmax

---------------------------------------------------------------------------
(* The validity lookup table. *)

\* The keys of the table. In a key, a b c d f g h i are the bits 0 1 2 3 4
\* 5 6 7.
Keys == 0 .. 255

\* The cyclic sequence f, c, b, a, d, g, h, i (back to f) around the pixel,
\* as bit positions.
Cycle == <<4, 2, 1, 0, 3, 5, 6, 7>>

\* The corners a, c, g, i, each with its two axis-aligned neighbours
\* (b d, b f, d h, f h), as bit positions.
Corners == {<<0, 1, 3>>, <<2, 1, 4>>, <<5, 3, 6>>, <<7, 4, 6>>}

\* The chosen-to-unchosen transitions of the key n along the cycle.
Base(n) ==
    Cardinality({k \in 1 .. Len(Cycle) :
                    /\ Bit(n, Cycle[k]) = 1
                    /\ Bit(n, Cycle[(k % Len(Cycle)) + 1]) = 0})

\* The unchosen corners of n between two chosen axis-aligned neighbours.
CorrectionB4(n) ==
    Cardinality({t \in Corners :
                    Bit(n, t[1]) = 0 /\ Bit(n, t[2]) = 1 /\ Bit(n, t[3]) = 1})

\* The chosen corners of n between two unchosen axis-aligned neighbours.
CorrectionB8(n) ==
    Cardinality({t \in Corners :
                    Bit(n, t[1]) = 1 /\ Bit(n, t[2]) = 0 /\ Bit(n, t[3]) = 0})

\* The generator has just been constructed: its table has just been filled.
Constructed == gen = InitGenerator

\* C25, as claimed. Lookup table for B = 4: for A = 4 and for A = 8, every
\* key n of 0 .. 255 is valid iff base(n) minus the number of unchosen
\* corners between two chosen axis-aligned neighbours is at most 1.
C25_LookupB4AnyA ==
    (B = 4 /\ Constructed) =>
        \A n \in Keys :
            LookupTableValidity(n) <=> (Base(n) - CorrectionB4(n) <= 1)

\* C25, amended. Lookup table for B = 4: for A = 8 every key n is valid iff
\* base(n) minus the number of unchosen corners between two chosen
\* axis-aligned neighbours is at most 1; for A = 4 the correction is not
\* applied, n is valid iff base(n) <= 1. The key read by checkValidity() is
\* judged by that rule.
C25_LookupB4 ==
    /\ (B = 4 /\ Constructed) =>
           \A n \in Keys :
               LookupTableValidity(n) <=>
                   (Base(n) - (IF A = 8 THEN CorrectionB4(n) ELSE 0) <= 1)
    /\ (B = 4 /\ pc = "check") =>
           (CheckValidity(gen) <=>
               (Base(Neighbourhood(gen))
                  - (IF A = 8 THEN CorrectionB4(Neighbourhood(gen)) ELSE 0)
                <= 1))

\* checkValidity() accepts a figure of (8,4) thanks to the correction.
C25_Witness ==
    /\ A = 8
    /\ B = 4
    /\ pc = "check"
    /\ Base(Neighbourhood(gen)) = 2
    /\ CorrectionB4(Neighbourhood(gen)) = 1
    /\ CheckValidity(gen)

\* The places of a b c d f g h i around a pixel, as (dx, dy) with y upwards:
\* up-left, up, up-right, left, right, down-left, down, down-right.
KeyOffsets == << <<-1, 1>>, <<0, 1>>, <<1, 1>>, <<-1, 0>>,
                 <<1, 0>>, <<-1, -1>>, <<0, -1>>, <<1, -1>> >>

\* The last chosen pixel of g.
LastChosen(g) == g.candidates[g.chosenIndices[g.level]]

\* The k-th neighbour (in the order of KeyOffsets) of the last chosen pixel
\* is a pixel of the figure.
NeighbourChosen(g, k) ==
    \E p \in Figure(g) :
        /\ XOf(p) = XOf(LastChosen(g)) + KeyOffsets[k][1]
        /\ YOf(p) = YOf(LastChosen(g)) + KeyOffsets[k][2]

\* C26. Lookup table for B = 8: for A = 4 and for A = 8, every key n of
\* 0 .. 255 is valid iff base(n) minus the number of chosen corners between
\* two unchosen axis-aligned neighbours is at most 1; and the key read by
\* checkValidity() has bit k - 1 set iff the k-th of up-left, up, up-right,
\* left, right, down-left, down, down-right of the last chosen pixel is
\* chosen. For (4,8), where no traversal follows the table, the verdict of
\* checkValidity() is that rule applied to the key.
C26_LookupB8 ==
    /\ (B = 8 /\ Constructed) =>
           \A n \in Keys :
               LookupTableValidity(n) <=> (Base(n) - CorrectionB8(n) <= 1)
    /\ (B # 0 /\ pc = "check") =>
           /\ Neighbourhood(gen) \in Keys
           /\ \A k \in 1 .. Len(KeyOffsets) :
                  Bit(Neighbourhood(gen), k - 1) = 1 <=> NeighbourChosen(gen, k)
    /\ (B = 8 /\ A = 4 /\ pc = "check") =>
           (CheckValidity(gen) <=>
               (Base(Neighbourhood(gen)) - CorrectionB8(Neighbourhood(gen))
                <= 1))

\* checkValidity() accepts a figure of B = 8 thanks to the correction, on a
\* key that is not its own mirror image.
C26_Witness ==
    /\ B = 8
    /\ pc = "check"
    /\ Base(Neighbourhood(gen)) = 2
    /\ CorrectionB8(Neighbourhood(gen)) = 1
    /\ Bit(Neighbourhood(gen), 3) # Bit(Neighbourhood(gen), 4)
    /\ CheckValidity(gen)

---------------------------------------------------------------------------
(* Oversized requests. *)

\* C27, as claimed. Oversized request: when a driver is called with nmax
\* above Nmax, level never reaches Nmax, no figure has more than Nmax
\* pixels and candidateCounts and chosenIndices are never indexed behind
\* their last element.
C27_OversizedRequest ==
    nmax > Nmax =>
        /\ gen.level < Nmax
        /\ gen.level \in DOMAIN gen.chosenIndices
        /\ gen.level \in DOMAIN gen.candidateCounts
        /\ Cardinality(Figure(gen)) <= Nmax

---------------------------------------------------------------------------
(* firstChild() and nextSibling(), call by call. *)

\* The neighbours of the last chosen pixel of g that are no candidates yet.
NewNeighbours(g) == GridNeighbours(A, LastChosen(g)) \ g.gridCandidates

\* The number of candidates appended by firstChild() called on g.
Appended(g) == FirstChild(g).g.count - g.count

\* firstChild() called on g leaves level, count, chosenIndices and both
\* grids as they are in g.
FirstChildKeeps(g) ==
    /\ FirstChild(g).g.level = g.level
    /\ FirstChild(g).g.count = g.count
    /\ FirstChild(g).g.chosenIndices = g.chosenIndices
    /\ FirstChild(g).g.gridCandidates = g.gridCandidates
    /\ FirstChild(g).g.gridChosen = g.gridChosen

\* C28, as claimed. firstChild() failure condition: whenever a call of
\* firstChild() appends no neighbour of the chosen pixel, it returns false
\* and leaves level, count, chosenIndices and both grids unchanged; it
\* returns true only if it appended a neighbour.
C28_FailsIfNoneAppended ==
    CallsFirstChild =>
        /\ Appended(gen) = 0 => (~FirstChild(gen).ret /\ FirstChildKeeps(gen))
        /\ FirstChild(gen).ret => Appended(gen) > 0

\* C28, amended. firstChild() failure condition: a call of firstChild()
\* returns false iff no candidate follows the chosen one, that is iff the
\* chosen pixel has no neighbour to append and idx + 1 = count; it then
\* leaves level, count, chosenIndices and both grids unchanged. It returns
\* true when it appended a neighbour and also when it appended none but a
\* candidate appended earlier follows idx.
C28_FailureCondition ==
    CallsFirstChild =>
        /\ ~FirstChild(gen).ret <=>
               /\ NewNeighbours(gen) = {}
               /\ gen.chosenIndices[gen.level] + 1 = gen.count
        /\ ~FirstChild(gen).ret => (Appended(gen) = 0 /\ FirstChildKeeps(gen))
        /\ FirstChild(gen).ret =>
               \/ Appended(gen) > 0
               \/ gen.chosenIndices[gen.level] + 1 < gen.count

\* generate() calls firstChild() on the last candidate, all of whose
\* neighbours are candidates already: the call fails.
C28_Witness ==
    /\ pc = "check"
    /\ CallsFirstChild
    /\ NewNeighbours(gen) = {}
    /\ ~FirstChild(gen).ret

\* The fixed order of the neighbours, as (dx, dy) with y upwards: right, up,
\* left, down for A = 4; right, up-right, up, up-left, left, down-left,
\* down, down-right for A = 8.
NeighbourOrder ==
    IF A = 4
    THEN << <<1, 0>>, <<0, 1>>, <<-1, 0>>, <<0, -1>> >>
    ELSE << <<1, 0>>, <<1, 1>>, <<0, 1>>, <<-1, 1>>,
            <<-1, 0>>, <<-1, -1>>, <<0, -1>>, <<1, -1>> >>

\* The neighbours of the last chosen pixel of g in the fixed order, without
\* those that are candidates in g.
OrderedNewNeighbours(g) ==
    LET p == LastChosen(g)
        all == [k \in 1 .. Len(NeighbourOrder) |->
                   (XOf(p) + NeighbourOrder[k][1])
                       + Width * (YOf(p) + NeighbourOrder[k][2])]
        IsNew(q) == q \notin g.gridCandidates
    IN  SelectSeq(all, IsNew)

\* The candidates appended by firstChild() called on g, in the order of
\* their indices.
AppendedSeq(g) ==
    [k \in 1 .. Appended(g) |-> FirstChild(g).g.candidates[g.count + k - 1]]

\* C29. firstChild() success effect: whenever firstChild() returns true from
\* a state with idx = chosenIndices[level], level has grown by one,
\* candidateCounts[level] = count, chosenIndices[level] = idx + 1,
\* candidates[idx + 1] is the chosen pixel of the new level (and set in
\* gridChosen where that grid is stored), the chosen indices and the chosen
\* bits of the lower levels are unchanged, and the appended candidates are
\* the neighbours of candidates[idx] that were no candidates, in the fixed
\* order of the directions.
C29_FirstChildSuccess ==
    (CallsFirstChild /\ FirstChild(gen).ret) =>
        LET idx == gen.chosenIndices[gen.level]
            res == FirstChild(gen).g
        IN  /\ res.level = gen.level + 1
            /\ res.candidateCounts[res.level] = res.count
            /\ res.chosenIndices[res.level] = idx + 1
            /\ LastChosen(res) = res.candidates[idx + 1]
            /\ B # 0 => res.gridChosen = gen.gridChosen \cup {res.candidates[idx + 1]}
            /\ \A l \in 0 .. gen.level :
                   /\ res.chosenIndices[l] = gen.chosenIndices[l]
                   /\ res.candidateCounts[l] = gen.candidateCounts[l]
                   /\ res.candidates[res.chosenIndices[l]]
                          = gen.candidates[gen.chosenIndices[l]]
            /\ \A k \in 0 .. gen.count - 1 : res.candidates[k] = gen.candidates[k]
            /\ AppendedSeq(gen) = OrderedNewNeighbours(gen)
            /\ res.gridCandidates =
                   gen.gridCandidates \cup NewNeighbours(gen)

\* A successful firstChild() with A = 8 below the origin's level that
\* appends some of the eight neighbours and skips others.
C29_Witness ==
    /\ A = 8
    /\ gen.level >= 1
    /\ CallsFirstChild
    /\ FirstChild(gen).ret
    /\ Appended(gen) \in 2 .. 6

\* generate() is about to call nextSibling().
CallsNextSibling == pc = "sibling"

\* A step of generate() that calls nextSibling(), as claimed: with
\* idx + 1 < count the call returns true (the loop is left for
\* checkValidity()), the chosen pixel of the level moves from
\* candidates[idx] to candidates[idx + 1] and nothing else changes; otherwise
\* it returns false and has changed nothing: at level 0 generate() returns
\* from the state as it was, above level 0 parent() acts on that state.
NextSiblingStep ==
    CallsNextSibling =>
        LET idx == gen.chosenIndices[gen.level]
            old == gen.candidates[idx]
            new == gen.candidates[idx + 1]
        IN  IF idx + 1 < gen.count
            THEN /\ pc' = "check"
                 /\ gen'.chosenIndices[gen.level] = idx + 1
                 /\ LastChosen(gen') = new
                 /\ Figure(gen') = (Figure(gen) \ {old}) \cup {new}
                 /\ new \notin Figure(gen)
                 /\ B # 0 =>
                        /\ old \in gen.gridChosen
                        /\ new \notin gen.gridChosen
                        /\ gen'.gridChosen = (gen.gridChosen \ {old}) \cup {new}
                 /\ gen'.level = gen.level
                 /\ gen'.count = gen.count
                 /\ gen'.candidates = gen.candidates
                 /\ gen'.candidateCounts = gen.candidateCounts
                 /\ gen'.gridCandidates = gen.gridCandidates
                 /\ \A l \in 0 .. gen.level - 1 :
                        gen'.chosenIndices[l] = gen.chosenIndices[l]
            ELSE /\ pc' # "check"
                 /\ gen.level = 0 => (pc' = "done" /\ gen' = gen)
                 /\ gen.level > 0 => gen' = Parent(gen)

\* C30. nextSibling() effect and frame: nextSibling() returns true iff
\* chosenIndices[level] + 1 < count; on true it moves the chosen bit from
\* candidates[idx] to candidates[idx + 1] and sets chosenIndices[level] to
\* idx + 1, while level, count, candidates, candidateCounts, gridCandidates
\* and the chosen pixels of the lower levels stay unchanged; on false the
\* entire state is unchanged.
C30_NextSiblingEffect == [][NextSiblingStep]_vars

\* nextSibling() has moved the chosen bit of a level above the origin's:
\* the chosen index is past the first child's.
C30_Witness ==
    /\ B # 0
    /\ pc = "check"
    /\ gen.level >= 1
    /\ gen.chosenIndices[gen.level] > gen.chosenIndices[gen.level - 1] + 1

---------------------------------------------------------------------------
(* parent() and the candidate sequence. *)

\* A step of generate() that calls parent(): the generator is back in the
\* state it had when the callback was last called on the level it returns
\* to, which is the state firstChild() was called in.
ParentRestoresStep ==
    (pc = "sibling" /\ gen'.level < gen.level) =>
        /\ gen'.level = gen.level - 1
        /\ Len(trace) > gen'.level
        /\ Snapshot(gen') = trace[gen'.level + 1]

\* C31. parent() undoes firstChild(): if firstChild() succeeds in a state S,
\* then after the nextSibling() calls at the new level and the complete
\* descents below it that the sweep makes, parent() restores level, count,
\* candidates[0 .. count), chosenIndices[0 .. level], gridCandidates and
\* gridChosen to their values in S; and count = candidateCounts[level] in
\* every state.
C31_ParentUndoesFirstChild ==
    /\ [](gen.count = gen.candidateCounts[gen.level])
    /\ [][ParentRestoresStep]_vars

\* parent() has just restored a state (B # 0) from below which the sweep
\* had gone two levels down and moved to a sibling: snapshots of deeper
\* levels are kept and an entry is left behind count.
C31_Witness ==
    /\ B # 0
    /\ pc = "sibling"
    /\ gen.level >= 1
    /\ Len(trace) > gen.level + 2
    /\ Snapshot(gen) = trace[gen.level + 1]
    /\ trace[gen.level + 2].chosenIndices[gen.level + 1]
           > gen.chosenIndices[gen.level] + 1
    /\ gen.candidates[gen.count] # 0

\* The lower of the levels before and after a step.  A step of a driver
\* goes up by at most one level, at its start, so no level in between is
\* lower.
LowLevel == IF gen'.level < gen.level THEN gen'.level ELSE gen.level

\* A step on one generator object (every step but the construction of the
\* stepwise driver's generator), as claimed: the entries below
\* candidateCounts[l] and candidateCounts[l] itself are kept for every level
\* l the generator stays at or above; entries change only from index count
\* on and count grows only when the step calls firstChild(); count
\* decreases only when the step calls parent(), to candidateCounts of the
\* level it arrives at.
AppendOnlyStep ==
    pc # "done" =>
        /\ \A l \in 0 .. LowLevel :
               /\ gen'.candidateCounts[l] = gen.candidateCounts[l]
               /\ \A k \in 0 .. gen.candidateCounts[l] - 1 :
                      gen'.candidates[k] = gen.candidates[k]
        /\ \A k \in DOMAIN gen.candidates :
               gen'.candidates[k] # gen.candidates[k] =>
                   /\ k >= gen.count
                   /\ CallsFirstChild
                   /\ k < gen.count + Appended(gen)
        /\ gen'.count > gen.count => CallsFirstChild
        /\ (pc = "check" /\ gen'.count > gen.count) =>
               /\ gen'.level = gen.level + 1
               /\ gen'.count = gen.count + Appended(gen)
        /\ gen'.count < gen.count =>
               /\ pc \in {"sibling", "alt_step"}
               /\ gen'.level < gen.level
               /\ gen'.count = gen.candidateCounts[gen'.level]

\* C32. The candidate sequence is append-only below the current depth: for
\* every level l the entries candidates[0 .. candidateCounts[l]) are not
\* modified while the level stays at or above l; entries are written only
\* from index count on by firstChild(), and count decreases only in
\* parent(), which truncates it to candidateCounts of the new level.
C32_AppendOnly == [][AppendOnlyStep]_vars

\* After a truncation that dropped two entries or more, at a level whose
\* parent level had appended candidates.
C32_Witness ==
    /\ pc = "sibling"
    /\ gen.level >= 2
    /\ gen.count > gen.candidateCounts[gen.level - 1]
    /\ gen.candidates[gen.count + 1] # 0

---------------------------------------------------------------------------
(* checkValidity(). *)

\* The rule of the table for the connectivity (A, B), B # 0: base(n) less
\* the correction of B = 8, or of (8,4), is at most 1.
TableRule(n) ==
    Base(n) - (IF B = 8 THEN CorrectionB8(n)
               ELSE IF A = 8 THEN CorrectionB4(n) ELSE 0) <= 1

\* C33. The fallback is only for (8,8): for every (A, B) with B # 0 other
\* than (8,8), checkValidity() returns what the table holds for the key of
\* the last chosen pixel and does not run the graph traversal, whatever the
\* traversal would find; for (8,8) the traversal runs exactly when the
\* table holds false, and its verdict is returned; with B = 0
\* checkValidity() returns true.
C33_FallbackOnly88 ==
    pc = "check" =>
        /\ B = 0 => (CheckValidity(gen) /\ ~CheckValidityTraverses(gen))
        /\ (B # 0 /\ ~(A = 8 /\ B = 8)) =>
               /\ CheckValidity(gen) <=> TableRule(Neighbourhood(gen))
               /\ ~CheckValidityTraverses(gen)
        /\ (A = 8 /\ B = 8) =>
               /\ CheckValidityTraverses(gen) <=> ~TableRule(Neighbourhood(gen))
               /\ CheckValidity(gen) <=>
                      (TableRule(Neighbourhood(gen)) \/ GraphTraversal(gen))

\* Outside (8,8) the table rejects a figure that the traversal would let
\* through.
C33_Witness ==
    /\ B # 0
    /\ ~(A = 8 /\ B = 8)
    /\ pc = "check"
    /\ ~CheckValidity(gen)
    /\ GraphTraversal(gen)

\* checkValidity() is about to accept the figure by the graph traversal,
\* the table having rejected its key.
AcceptedByTraversal ==
    /\ pc = "check"
    /\ CheckValidityTraverses(gen)
    /\ GraphTraversal(gen)

\* C34. The fallback is needed and exercised: with (8,8) and nmax = 5 the
\* sweep reaches a figure whose key the table rejects and which the graph
\* traversal accepts, and each such figure is reported (the callback counts
\* it at its level).
C34_FallbackExercised ==
    /\ (A = 8 /\ B = 8 /\ nmax = 5) => <>AcceptedByTraversal
    /\ [][AcceptedByTraversal => counts'[gen.level] = counts[gen.level] + 1]_vars

\* The sweep of (8,8) to 5 pixels has reported a figure accepted by the
\* traversal alone and stands at another one.
C34_Witness ==
    /\ A = 8
    /\ B = 8
    /\ nmax = 5
    /\ AcceptedByTraversal
    /\ counts[gen.level] > 0

\* C36. The scratch traversal stays in bounds: for (8,8) and nmax <= Nmax,
\* in every graph traversal visit.count never exceeds the capacity
\* 5 * Nmax + Width + 1 of visit.queue, every position probed in visit.grid
\* is in 0 .. GridSize - 1, no position is pushed twice, and the traversal
\* ends, after one iteration for each position pushed.
C36_TraversalInBounds ==
    (pc = "check" /\ CheckValidityTraverses(gen)) =>
        \A log \in {TraversalLog(gen)} :
            /\ log.maxCount <= VisitQueueSize
            /\ log.probed \subseteq 0 .. GridSize - 1
            /\ Cardinality({log.pushed[i] : i \in 1 .. Len(log.pushed)})
                   = Len(log.pushed)
            /\ log.iterations = Len(log.pushed)
            /\ log.iterations <= Cardinality(VisitGridInit(gen)) + 1
            /\ GraphTraversal(gen) <=>
                   {log.pushed[i] : i \in 1 .. Len(log.pushed)}
                       = VisitGridInit(gen) \cup {FirstVisitPos}

\* A traversal on a figure of Nmax pixels that holds several positions in
\* the queue at once and probes the top row of the figure's surroundings.
C36_Witness ==
    /\ pc = "check"
    /\ CheckValidityTraverses(gen)
    /\ gen.level = Nmax - 1
    /\ Nmax >= 4
    /\ \E log \in {TraversalLog(gen)} :
           /\ log.maxCount >= 4
           /\ \E p \in log.probed : YOf(p) >= 5

---------------------------------------------------------------------------
(* Statistics. *)

\* A step of generate() from a state in which checkValidity() is called, as
\* claimed: nonLeaf grows by one exactly when the figure is reported and
\* firstChild() produces a child of it (the level grows), leaf grows by one
\* exactly when the figure is reported and gets no child.
StatsMeaningStep ==
    pc = "check" =>
        /\ stats'.nonLeaf - stats.nonLeaf =
               (IF CheckValidity(gen) /\ gen'.level = gen.level + 1 THEN 1 ELSE 0)
        /\ stats'.leaf - stats.leaf =
               (IF CheckValidity(gen) /\ gen'.level = gen.level THEN 1 ELSE 0)

\* C37, as claimed. Statistics meaning: over a callback sweep nonLeaf counts
\* the reported figures for which firstChild() produced a child and leaf
\* the reported figures without child (firstChild() failed, or the figure
\* is at depth nmax - 1).
C37_StatisticsMeaning == [][StatsMeaningStep]_vars

\* The sum of the counts of all levels.
RECURSIVE SumCounts(_, _)
SumCounts(c, l) == IF l < 0 THEN 0 ELSE c[l] + SumCounts(c, l - 1)

\* A step of generate() grows rejected by one exactly when the call of
\* checkValidity() returns false.
RejectedStep ==
    pc = "check" =>
        stats'.rejected - stats.rejected = (IF CheckValidity(gen) THEN 0 ELSE 1)

\* C38, as claimed. Statistics partition: each figure the state machine
\* produces grows exactly one of the three counters, so at the end of a
\* sweep nonLeaf + leaf is the number of reported figures (the sum of the
\* counts of all levels), for the callback driver and for the stepwise
\* driver alike, and rejected is the number of checkValidity() calls that
\* returned false.
C38_StatisticsPartition ==
    /\ [](pc = "done" =>
              stats.nonLeaf + stats.leaf = SumCounts(counts, Nmax - 1))
    /\ [](pc = "alt_done" =>
              stats.nonLeaf + stats.leaf = SumCounts(altCounts, Nmax - 1))
    /\ [][RejectedStep]_vars

---------------------------------------------------------------------------
(* The subtasks of the parallel driver. *)

\* The candidates chosen at the levels 0 .. InitialDepth - 1 of g: the path
\* from the root to the figure of level InitialDepth - 1 above g.
SubtaskPrefix(g) == [l \in 0 .. InitialDepth - 1 |-> g.chosenIndices[l]]

\* The worker that takes a step of its loop on a subtask.
Stepping(w) ==
    /\ pc = "mt_wait"
    /\ workers[w].at = "loop"
    /\ workers'[w] # workers[w]

\* When the main thread has filled tasks, there is one snapshot for each
\* figure the callback sweep reported at the level InitialDepth - 1, each a
\* valid figure of that level, no two on the same path; no worker has
\* counted a figure of a level <= InitialDepth - 1; when the driver returns,
\* the workers together have counted at each level >= InitialDepth as many
\* figures as the callback sweep reported there.
SubtaskState ==
    nmax >= InitialDepth =>
        /\ pc = "mt_push" =>
               /\ Len(tasks) = counts[InitialDepth - 1]
               /\ \A k \in 1 .. Len(tasks) :
                      /\ tasks[k].level = InitialDepth - 1
                      /\ CheckValidity(tasks[k])
                      /\ \A j \in 1 .. k - 1 :
                             SubtaskPrefix(tasks[j]) # SubtaskPrefix(tasks[k])
        /\ \A w \in 1 .. Len(workers) :
               \A l \in 0 .. InitialDepth - 1 : workers[w].my_counts[l] = 0
        /\ pc = "mt_done" =>
               \A l \in InitialDepth .. nmax - 1 :
                   SumMyCounts(l, Len(workers)) = counts[l]

\* A step of a worker's loop on the subtask k leaves the subtask exactly
\* when the level after the step is <= InitialDepth - 1, and then counts
\* nothing; otherwise it counts one valid figure at its level, reached on
\* the path of the subtask.
SubtaskStep ==
    nmax >= InitialDepth =>
        \A w \in 1 .. Len(workers) :
            Stepping(w) =>
                \A k \in {workers[w].i + 1} :
                    /\ workers'[w].i = workers[w].i + 1
                           <=> tasks'[k].level <= InitialDepth - 1
                    /\ tasks'[k].level <= InitialDepth - 1 =>
                           workers'[w].my_counts = workers[w].my_counts
                    /\ tasks'[k].level > InitialDepth - 1 =>
                           /\ CheckValidity(tasks'[k])
                           /\ SubtaskPrefix(tasks'[k]) = SubtaskPrefix(tasks[k])
                           /\ workers'[w].my_counts =
                                  [workers[w].my_counts EXCEPT
                                      ![tasks'[k].level] = @ + 1]

\* C39. Subtask partition: with nmax >= InitialDepth the snapshots are the
\* valid figures of the level InitialDepth - 1, one each; a worker leaves a
\* subtask at the first step after which the level is <= InitialDepth - 1
\* (which includes the exhausted enumeration, left at level 0); no worker
\* counts a figure of a level <= InitialDepth - 1; and the figures of the
\* levels >= InitialDepth are counted once each, below the snapshot on
\* whose path they lie.
C39_SubtaskPartition == []SubtaskState /\ [][SubtaskStep]_vars

\* The driver has returned with nmax above the threshold, from several
\* snapshots of a level >= 1 split among two workers that both counted
\* figures of size nmax.
C39_Witness ==
    /\ pc = "mt_done"
    /\ InitialDepth >= 2
    /\ nmax > InitialDepth
    /\ Len(tasks) >= 2
    /\ Len(workers) = 2
    /\ \A w \in 1 .. 2 : workers[w].my_counts[nmax - 1] > 0
    /\ SumMyCounts(nmax - 1, 2) = counts[nmax - 1]

\* C40. The parallel driver respects nmax below the threshold: with
\* nmax < InitialDepth neither the main thread nor a subtask holds a figure
\* of more than nmax pixels (level + 1 > nmax), and at the return
\* res.counts[l] = 0 at every level l >= nmax, as after the callback sweep.
C40_RespectsNmaxBelowThreshold ==
    (nmax < InitialDepth /\ pc \in {"mt_loop", "mt_push", "mt_wait", "mt_done"}) =>
        /\ gen.level + 1 <= nmax
        /\ \A k \in 1 .. Len(tasks) : tasks[k].level + 1 <= nmax
        /\ pc = "mt_done" =>
               \A l \in nmax .. Nmax - 1 : mtCounts[l] = 0 /\ counts[l] = 0

============================================================================
